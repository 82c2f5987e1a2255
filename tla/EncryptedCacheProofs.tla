------------------------ MODULE EncryptedCacheProofs ------------------------
(***************************************************************************)
(* Proofs about the encrypting cache, for every number of tenants, masters *)
(* and workers: erasure (ShredErases), integrity (ReadsWhatWasPut),        *)
(* rotation without loss (NoLostEntry), and types.                         *)
(***************************************************************************)
EXTENDS EncryptedCache, TLAPS

Eras == 0..MaxShreds

\* The cipher of a tenant at an epoch, under the settings of this life.
FullCipher(t, e) == [seals |-> Dek(settings.master, t, e),
                     opens |-> {Dek(m, t, e) : m \in Configured}]

BlobOK(b) ==
    /\ b = [dek |-> b.dek, aad |-> b.aad, value |-> b.value]
    /\ b.aad \in Keys /\ b.value.key = b.aad /\ b.value.era \in Eras
    /\ \/ b.dek \in {Cleartext, Damaged}
       \/ \E m \in Masters : b.dek = Dek(m, TenantOf(b.aad), b.value.era)

\* An operation in progress has the cipher of the era in which it began.
CipherOf(t, e) == IF settings.encrypted THEN FullCipher(t, e) ELSE NoCipher

OpOK(o) ==
    \/ o = NoOp
    \/ \E op \in {"get", "put"}, k \in Keys, e \in Eras :
          /\ o = [op |-> op, key |-> k, era |-> e, cipher |-> CipherOf(TenantOf(k), e)]
          /\ settings.encrypted => ~Withheld(TenantOf(k))

RowsOK ==
    \A k \in DOMAIN rows :
        /\ rows[k] = [answer |-> rows[k].answer, expires |-> rows[k].expires]
        /\ BlobOK(rows[k].answer)
OpsOK == ops = [w \in Workers |-> ops[w]] /\ \A w \in Workers : OpOK(ops[w])
MemoOK == \A x \in DOMAIN memo : memo[x] = FullCipher(x[1], x[2])
SettingsOK ==
    /\ settings \in Settings
    /\ held \in {{}, Configured}
    /\ settings.shredded # {} => Provider \in {"tenant", "kms"}
    /\ settings.encrypted \/ MayDisable
EpochsOK ==
    /\ epochs \in [Tenants -> Nat]
    /\ shreds \in [Tenants -> Eras]
    /\ \A t \in Tenants : EpochOf(t) = shreds[t]

\* What the last operation returned.
LastOK ==
    last.op = "get" =>
        /\ last.outcome = "garbled" => ~settings.encrypted
        /\ last.outcome = "hit" /\ settings.encrypted =>
              /\ last.value.key = last.key
              /\ last.value.era = last.era /\ last.era \in Eras
              /\ TenantOf(last.key) \notin settings.shredded

IInv == RowsOK /\ OpsOK /\ MemoOK /\ SettingsOK /\ EpochsOK /\ LastOK

-----------------------------------------------------------------------------
(* Lemmas. *)

\* Data keys of different eras differ.
LEMMA DekEra ==
    ASSUME NEW m, NEW t, NEW e, NEW n, NEW u, NEW f, Dek(m, t, e) = Dek(n, u, f)
    PROVE  e = f
<1>1. Dek(m, t, e).epoch = e /\ Dek(n, u, f).epoch = f
  BY DEF Dek
<1> QED
  BY <1>1

\* The provider hands out the cipher of the present epoch.
LEMMA CipherIsFull ==
    ASSUME IInv, NEW t \in Tenants
    PROVE  CipherFor(t) = FullCipher(t, shreds[t])
<1>1. EpochOf(t) = shreds[t]
  BY DEF IInv, EpochsOK
<1>2. Opening = Configured
  BY DEF IInv, SettingsOK, Opening
<1>3. CASE MemoKey(t) \in DOMAIN memo
  <2>1. MemoKey(t)[1] = t /\ MemoKey(t)[2] = shreds[t]
    BY <1>1 DEF MemoKey
  <2> QED
    BY <1>3, <2>1 DEF IInv, MemoOK, CipherFor
<1>4. CASE MemoKey(t) \notin DOMAIN memo
  BY <1>1, <1>2, <1>4 DEF CipherFor, Derived, FullCipher
<1> QED
  BY <1>3, <1>4

\* A tenant's cipher is not the missing cipher.
LEMMA FullIsCipher ==
    ASSUME SettingsOK, NEW t \in Tenants, NEW e \in Eras
    PROVE  FullCipher(t, e) # NoCipher
<1>1. Dek(settings.master, t, e) # Cleartext
  BY DekAssumption DEF SettingsOK, Settings, Eras
<1>2. FullCipher(t, e).seals = Dek(settings.master, t, e) /\ NoCipher.seals = Cleartext
  BY DEF FullCipher, NoCipher
<1> QED
  BY <1>1, <1>2

\* A blob that a tenant's cipher opens was sealed for that key, in that era.
LEMMA OpensOwn ==
    ASSUME SettingsOK, NEW b, BlobOK(b), NEW k \in Keys, NEW e \in Eras,
           Opens(FullCipher(TenantOf(k), e), k, b)
    PROVE  b.value.key = k /\ b.value.era = e
<1> DEFINE t == TenantOf(k)
<1>1. t \in Tenants
  BY DEF Keys, TenantOf
<1>2. b.aad = k /\ b.dek \in FullCipher(t, e).opens
  BY DEF Opens
<1>3. PICK m \in Configured : b.dek = Dek(m, t, e)
  BY <1>2 DEF FullCipher
<1>4. m \in Masters
  BY DEF SettingsOK, Settings, Configured
<1>5. b.dek \notin {Cleartext, Damaged}
  BY <1>1, <1>3, <1>4, DekAssumption DEF Eras
<1>6. PICK n \in Masters : b.dek = Dek(n, TenantOf(b.aad), b.value.era)
  BY <1>5 DEF BlobOK
<1>7. b.value.era = e
  BY <1>3, <1>6, DekEra
<1> QED
  BY <1>2, <1>7 DEF BlobOK

-----------------------------------------------------------------------------
(* One lemma for each action. *)

LEMMA StepBegin ==
    ASSUME IInv, NEW w \in Workers, NEW op \in {"get", "put"}, NEW k \in Keys, Begin(w, op, k)
    PROVE  IInv'
<1> DEFINE t == TenantOf(k)
<1>1. t \in Tenants /\ shreds[t] \in Eras
  BY DEF Keys, TenantOf, IInv, EpochsOK
<1>2. UNCHANGED <<rows, settings, epochs, shreds>> /\ last' = NoOp
  BY DEF Begin
<1> DEFINE c == CipherOf(t, shreds[t])
<1>3. /\ ops' = [ops EXCEPT ![w] = [op |-> op, key |-> k, era |-> shreds[t], cipher |-> c]]
      /\ settings.encrypted => ~Withheld(t)
  BY <1>1, CipherIsFull DEF Begin, CipherOf
<1>4. OpsOK'
  <2>1. ops' = [v \in Workers |-> IF v = w THEN [op |-> op, key |-> k, era |-> shreds[t], cipher |-> c]
                                  ELSE ops[v]]
    BY <1>3 DEF IInv, OpsOK
  <2> HIDE DEF c, t
  <2>2. ops' = [v \in Workers |-> ops'[v]]
    BY <2>1
  <2>3. ASSUME NEW v \in Workers PROVE OpOK(ops[v])'
    <3>1. OpOK(ops[v])
      BY DEF IInv, OpsOK
    <3>2. CASE v = w
      <4>1. ops'[v] = [op |-> op, key |-> k, era |-> shreds[t], cipher |-> c]
        BY <2>1, <3>2
      <4>2. settings' = settings
        BY <1>2
      <4> QED
        BY <1>1, <1>3, <4>1, <4>2 DEF c, t, OpOK, CipherOf, FullCipher, Withheld, Configured
    <3>3. CASE v # w
      <4>1. ops'[v] = ops[v] /\ settings' = settings
        BY <1>2, <2>1, <3>3
      <4> QED
        BY <3>1, <4>1 DEF OpOK, CipherOf, FullCipher, Withheld, Configured
    <3> QED
      BY <3>2, <3>3
  <2> QED
    BY <2>2, <2>3 DEF OpsOK
<1>5. MemoOK'
  <2>1. memo' = memo \/ memo' = Remembering(t)
    BY DEF Begin
  <2>2. CipherFor(t) = FullCipher(MemoKey(t)[1], MemoKey(t)[2])
    BY <1>1, CipherIsFull DEF MemoKey, IInv, EpochsOK
  <2> DEFINE y == MemoKey(t)
             d == CipherFor(t)
  <2>3. memo' = memo \/ memo' = [x \in DOMAIN memo \union {y} |-> IF x = y THEN d ELSE memo[x]]
    BY <2>1 DEF Remembering
  <2>4. \A x \in DOMAIN memo : memo[x] = FullCipher(x[1], x[2])
    BY DEF IInv, MemoOK
  <2>5. d = FullCipher(y[1], y[2])
    BY <2>2
  <2> HIDE DEF y, d
  <2>6. ASSUME NEW x \in DOMAIN memo' PROVE memo'[x] = FullCipher(x[1], x[2])
    BY <2>3, <2>4, <2>5
  <2> QED
    BY <1>2, <2>6 DEF MemoOK, FullCipher, Configured
<1>6. SettingsOK'
  BY <1>2 DEF Begin, Resolve, Opening, IInv, SettingsOK, Configured
<1>7. EpochsOK'
  BY <1>2, <1>3 DEF IInv, EpochsOK, EpochOf
<1>8. LastOK' /\ RowsOK'
  BY <1>2 DEF LastOK, NoOp, RowsOK, BlobOK, IInv
<1> QED
  BY <1>4, <1>5, <1>6, <1>7, <1>8 DEF IInv

\* Under the same settings, the operations that go on keep their cipher.
LEMMA StepCalm ==
    ASSUME IInv, UNCHANGED <<settings, memo>>,
           ops' = [v \in Workers |-> ops'[v]],
           \A v \in Workers : ops'[v] \in {ops[v], NoOp}
    PROVE  OpsOK' /\ MemoOK'
<1>1. ASSUME NEW v \in Workers PROVE OpOK(ops[v])'
  <2>1. OpOK(ops[v])
    BY DEF IInv, OpsOK
  <2>2. CASE ops'[v] = NoOp
    BY <2>2 DEF OpOK
  <2>3. CASE ops'[v] = ops[v]
    BY <2>1, <2>3 DEF OpOK, CipherOf, FullCipher, Withheld, Configured
  <2> QED
    BY <2>2, <2>3
<1>2. MemoOK'
  BY DEF IInv, MemoOK, FullCipher, Configured
<1> QED
  BY <1>1, <1>2 DEF OpsOK

\* A step of the environment, and an operation that ends before it began.
LEMMA StepEnvironment ==
    ASSUME IInv, UNCHANGED <<settings, memo, ops>>, RowsOK', EpochsOK', LastOK',
           held' \in {held, Configured}
    PROVE  IInv'
<1>1. ops' = [v \in Workers |-> ops'[v]] /\ \A v \in Workers : ops'[v] = ops[v]
  BY DEF IInv, OpsOK
<1>2. OpsOK' /\ MemoOK'
  BY <1>1, StepCalm
<1>3. SettingsOK'
  BY DEF IInv, SettingsOK, Configured
<1> QED
  BY <1>2, <1>3 DEF IInv

\* The operation of a worker, when it has one.
LEMMA InProgress ==
    ASSUME IInv, NEW w \in Workers, ops[w].op \in {"get", "put"}
    PROVE  \E op \in {"get", "put"}, k \in Keys, e \in Eras :
              /\ ops[w] = [op |-> op, key |-> k, era |-> e, cipher |-> CipherOf(TenantOf(k), e)]
              /\ settings.encrypted => ~Withheld(TenantOf(k))
<1>1. ops[w] # NoOp
  BY DEF NoOp
<1> QED
  BY <1>1 DEF IInv, OpsOK, OpOK

LEMMA StepFinishGet ==
    ASSUME IInv, NEW w \in Workers, FinishGet(w)
    PROVE  IInv'
<1>1. PICK k \in Keys, e \in Eras :
        /\ ops[w].key = k /\ ops[w].era = e
        /\ ops[w].cipher = CipherOf(TenantOf(k), e)
        /\ settings.encrypted => ~Withheld(TenantOf(k))
  <2>1. ops[w].op \in {"get", "put"}
    BY DEF FinishGet
  <2>2. PICK op \in {"get", "put"}, k \in Keys, e \in Eras :
          /\ ops[w] = [op |-> op, key |-> k, era |-> e, cipher |-> CipherOf(TenantOf(k), e)]
          /\ settings.encrypted => ~Withheld(TenantOf(k))
    BY <2>1, InProgress
  <2>3. ops[w].key = k /\ ops[w].era = e /\ ops[w].cipher = CipherOf(TenantOf(k), e)
    BY <2>2
  <2> QED
    BY <2>2, <2>3
<1>2. UNCHANGED <<settings, memo, held, epochs, shreds>>
  BY DEF FinishGet
<1>3. OpsOK' /\ MemoOK'
  <2>1. ops' = [v \in Workers |-> IF v = w THEN NoOp ELSE ops[v]]
    BY DEF FinishGet, IInv, OpsOK
  <2>2. ops' = [v \in Workers |-> ops'[v]] /\ \A v \in Workers : ops'[v] \in {ops[v], NoOp}
    BY <2>1
  <2> QED
    BY <1>2, <2>2, StepCalm
<1>4. SettingsOK' /\ EpochsOK'
  BY <1>2 DEF IInv, SettingsOK, EpochsOK, EpochOf, Configured
<1>5. RowsOK'
  <2>1. rows' = AfterGet(rows, ops[w].key, now)
    BY DEF FinishGet
  <2>2. \A x \in DOMAIN rows' : x \in DOMAIN rows /\ rows'[x] = rows[x]
    BY <2>1 DEF AfterGet
  <2> QED
    BY <2>2 DEF IInv, RowsOK, BlobOK
<1>6. LastOK'
  <2> DEFINE b == rows[k].answer
             c == CipherOf(TenantOf(k), e)
  <2>1. \/ last' = Done("get", k, e, "miss")
        \/ Fresh(rows, k, now) /\ c = NoCipher /\ last' = Hit(k, e, b.value)
        \/ Fresh(rows, k, now) /\ c = NoCipher /\ last' = Done("get", k, e, "garbled")
        \/ Fresh(rows, k, now) /\ c # NoCipher /\ Opens(c, k, b) /\ last' = Hit(k, e, b.value)
    BY <1>1 DEF FinishGet
  <2>2. TenantOf(k) \in Tenants /\ SettingsOK
    BY DEF Keys, TenantOf, IInv
  <2>3. c = NoCipher => ~settings.encrypted
    BY <2>2, FullIsCipher DEF CipherOf
  <2>4. c # NoCipher => settings.encrypted /\ c = FullCipher(TenantOf(k), e)
    BY DEF CipherOf
  <2>5. Fresh(rows, k, now) => BlobOK(b)
    BY DEF Fresh, IInv, RowsOK
  <2>6. settings.encrypted => TenantOf(k) \notin settings.shredded
    BY <1>1, <2>2 DEF SettingsOK, Settings, Withheld
  <2>7. CASE last' = Done("get", k, e, "miss")
    BY <2>7 DEF Done, LastOK
  <2>8. CASE c = NoCipher /\ last' = Hit(k, e, b.value)
    BY <1>2, <2>3, <2>8 DEF Hit, LastOK
  <2>9. CASE c = NoCipher /\ last' = Done("get", k, e, "garbled")
    BY <1>2, <2>3, <2>9 DEF Done, LastOK
  <2>10. CASE Fresh(rows, k, now) /\ c # NoCipher /\ Opens(c, k, b) /\ last' = Hit(k, e, b.value)
    <3>1. b.value.key = k /\ b.value.era = e
      BY <2>2, <2>4, <2>5, <2>10, OpensOwn
    <3>2. last'.outcome = "hit" /\ last'.key = k /\ last'.era = e /\ last'.value = b.value
      BY <2>10 DEF Hit
    <3> QED
      BY <1>2, <2>4, <2>6, <2>10, <3>1, <3>2 DEF LastOK
  <2> QED
    BY <2>1, <2>7, <2>8, <2>9, <2>10
<1> QED
  BY <1>3, <1>4, <1>5, <1>6 DEF IInv

LEMMA StepFinishPut ==
    ASSUME IInv, NEW w \in Workers, FinishPut(w)
    PROVE  IInv'
<1>1. PICK k \in Keys, e \in Eras :
        /\ ops[w].key = k /\ ops[w].era = e
        /\ ops[w].cipher = CipherOf(TenantOf(k), e)
  <2>1. ops[w].op \in {"get", "put"}
    BY DEF FinishPut
  <2>2. PICK op \in {"get", "put"}, k \in Keys, e \in Eras :
          /\ ops[w] = [op |-> op, key |-> k, era |-> e, cipher |-> CipherOf(TenantOf(k), e)]
          /\ settings.encrypted => ~Withheld(TenantOf(k))
    BY <2>1, InProgress
  <2>3. ops[w].key = k /\ ops[w].era = e /\ ops[w].cipher = CipherOf(TenantOf(k), e)
    BY <2>2
  <2> QED
    BY <2>2, <2>3
<1>2. UNCHANGED <<settings, memo, held, epochs, shreds>>
  BY DEF FinishPut
<1>3. OpsOK' /\ MemoOK'
  <2>1. ops' = [v \in Workers |-> IF v = w THEN NoOp ELSE ops[v]]
    BY DEF FinishPut, IInv, OpsOK
  <2>2. ops' = [v \in Workers |-> ops'[v]] /\ \A v \in Workers : ops'[v] \in {ops[v], NoOp}
    BY <2>1
  <2> QED
    BY <1>2, <2>2, StepCalm
<1>4. SettingsOK' /\ EpochsOK'
  BY <1>2 DEF IInv, SettingsOK, EpochsOK, EpochOf, Configured
<1>5. RowsOK'
  <2> DEFINE b == Sealed(CipherOf(TenantOf(k), e), k, Value(k, e))
  <2>1. rows' = AfterPut(rows, k, b, now)
    BY <1>1 DEF FinishPut
  <2>2. \/ b.dek = Cleartext
        \/ b.dek = Dek(settings.master, TenantOf(k), e) /\ settings.master \in Masters
    BY DEF CipherOf, NoCipher, FullCipher, Sealed, IInv, SettingsOK, Settings
  <2>3. b.aad = k /\ b.value.key = k /\ b.value.era = e
    BY DEF Sealed, Value
  <2>4. BlobOK(b)
    <3>1. b = [dek |-> b.dek, aad |-> b.aad, value |-> b.value]
      BY DEF Sealed
    <3> HIDE DEF b
    <3> QED
      BY <2>2, <2>3, <3>1 DEF BlobOK
  <2> HIDE DEF b
  <2>5. \A x \in DOMAIN rows' :
          \/ x \in DOMAIN rows /\ rows'[x] = rows[x]
          \/ rows'[x] = [answer |-> b, expires |-> now + TTL]
    BY <2>1 DEF AfterPut
  <2>6. ASSUME NEW x \in DOMAIN rows'
        PROVE  /\ rows'[x] = [answer |-> rows'[x].answer, expires |-> rows'[x].expires]
               /\ BlobOK(rows'[x].answer)
    <3>1. CASE x \in DOMAIN rows /\ rows'[x] = rows[x]
      BY <3>1 DEF IInv, RowsOK
    <3>2. CASE rows'[x] = [answer |-> b, expires |-> now + TTL]
      BY <2>4, <3>2
    <3> QED
      BY <2>5, <3>1, <3>2
  <2> QED
    BY <2>6 DEF RowsOK, BlobOK
<1>6. LastOK'
  BY DEF FinishPut, Done, LastOK
<1> QED
  BY <1>3, <1>4, <1>5, <1>6 DEF IInv

\* A body that no key opens any more.
Spoilt(b) == [dek |-> Damaged, aad |-> b.aad, value |-> b.value]

\* After an accident, every row has a body that was in the file, or one spoilt.
LEMMA AfterAccident ==
    ASSUME RowsOK, NEW j \in Keys, NEW k \in Keys, Damage(k) \/ Misplace(j, k)
    PROVE  /\ DOMAIN rows' = DOMAIN rows
           /\ \A x \in DOMAIN rows :
                 /\ rows'[x] = [answer |-> rows'[x].answer, expires |-> rows'[x].expires]
                 /\ \E y \in DOMAIN rows :
                       rows'[x].answer \in {rows[y].answer, Spoilt(rows[y].answer)}
<1>1. \A x \in DOMAIN rows :
        rows[x] = [answer |-> rows[x].answer, expires |-> rows[x].expires]
  BY DEF RowsOK
<1>2. CASE Damage(k)
  <2>1. rows' = [rows EXCEPT ![k].answer.dek = Damaged] /\ k \in DOMAIN rows
    BY <1>2 DEF Damage
  <2>2. ASSUME NEW x \in DOMAIN rows
        PROVE  /\ rows'[x] = [answer |-> rows'[x].answer, expires |-> rows'[x].expires]
               /\ rows'[x].answer \in {rows[x].answer, Spoilt(rows[x].answer)}
    <3> DEFINE r == rows[x]
               b == r.answer
    <3>1. r = [answer |-> b, expires |-> r.expires]
      BY <1>1
    <3>2. CASE x # k
      BY <2>1, <3>1, <3>2
    <3>3. CASE x = k
      <4>1. rows'[x] = [r EXCEPT !.answer.dek = Damaged]
        BY <2>1, <3>3
      <4>2. b = [dek |-> b.dek, aad |-> b.aad, value |-> b.value]
        BY DEF RowsOK, BlobOK
      <4>3. rows'[x].answer = [b EXCEPT !.dek = Damaged]
        BY <3>1, <4>1
      <4>4. rows'[x].answer = Spoilt(b)
        BY <4>2, <4>3 DEF Spoilt
      <4>5. rows'[x] = [answer |-> rows'[x].answer, expires |-> rows'[x].expires]
        BY <3>1, <4>1
      <4> QED
        BY <4>4, <4>5
    <3> QED
      BY <3>2, <3>3
  <2> QED
    BY <2>1, <2>2
<1>3. CASE Misplace(j, k)
  <2>1. /\ rows' = [rows EXCEPT ![k].answer = rows[j].answer]
        /\ k \in DOMAIN rows /\ j \in DOMAIN rows
    BY <1>3 DEF Misplace
  <2>2. ASSUME NEW x \in DOMAIN rows
        PROVE  /\ rows'[x] = [answer |-> rows'[x].answer, expires |-> rows'[x].expires]
               /\ rows'[x].answer \in {rows[x].answer, rows[j].answer}
    <3>1. rows[x] = [answer |-> rows[x].answer, expires |-> rows[x].expires]
      BY <1>1
    <3>2. CASE x # k
      BY <2>1, <3>1, <3>2
    <3>3. CASE x = k
      <4>1. rows'[x] = [rows[x] EXCEPT !.answer = rows[j].answer]
        BY <2>1, <3>3
      <4>2. rows'[x] = [answer |-> rows[j].answer, expires |-> rows[x].expires]
        BY <3>1, <4>1
      <4> QED
        BY <4>2
    <3> QED
      BY <3>2, <3>3
  <2> QED
    BY <2>1, <2>2
<1> QED
  BY <1>2, <1>3

\* Whatever the environment does to the file, a body is one that was sealed or
\* one that no key opens.
LEMMA StepOthers ==
    ASSUME IInv,
           \/ \E op \in {"get", "put"}, k \in Keys : Raises(op, k) \/ Withhold(op, k)
           \/ \E t \in Tenants : Shred(t)
           \/ \E j, k \in Keys : Damage(k) \/ Misplace(j, k)
           \/ KmsChanges \/ Tick \/ UNCHANGED vars
    PROVE  IInv'
<1>1. ASSUME NEW op \in {"get", "put"}, NEW k \in Keys, Raises(op, k) \/ Withhold(op, k)
      PROVE  IInv'
  <2>1. UNCHANGED <<settings, memo, ops, rows, epochs, shreds>> /\ held' \in {held, Configured}
    BY <1>1 DEF Raises, Withhold, Opening, IInv, SettingsOK
  <2>2. LastOK'
    BY <1>1 DEF Raises, Withhold, Done, LastOK
  <2>3. RowsOK' /\ EpochsOK'
    BY <2>1 DEF IInv, RowsOK, BlobOK, EpochsOK, EpochOf
  <2> QED
    BY <2>1, <2>2, <2>3, StepEnvironment
<1>2. ASSUME NEW t \in Tenants, Shred(t)
      PROVE  IInv'
  <2>1. UNCHANGED <<settings, memo, ops, rows, held>> /\ last' = NoOp
    BY <1>2 DEF Shred
  <2>2. EpochsOK'
    <3>1. /\ Provider = "epoch" /\ shreds[t] \in 0..MaxShreds /\ shreds[t] < MaxShreds
          /\ epochs[t] = shreds[t]
      BY <1>2 DEF Shred, IInv, EpochsOK, EpochOf, Eras
    <3>2. /\ epochs' = [epochs EXCEPT ![t] = epochs[t] + 1]
          /\ shreds' = [shreds EXCEPT ![t] = shreds[t] + 1]
      BY <1>2 DEF Shred, Bumped
    <3>3. shreds[t] + 1 \in Eras /\ epochs[t] + 1 \in Nat
      BY <3>1, ProviderAssumption DEF Eras
    <3>4. epochs \in [Tenants -> Nat] /\ shreds \in [Tenants -> Eras]
          /\ \A u \in Tenants : epochs[u] = shreds[u]
      BY <3>1 DEF IInv, EpochsOK, EpochOf
    <3>5. epochs' \in [Tenants -> Nat] /\ shreds' \in [Tenants -> Eras]
          /\ \A u \in Tenants : epochs'[u] = shreds'[u]
      BY <3>1, <3>2, <3>3, <3>4
    <3> QED
      BY <3>1, <3>5 DEF EpochsOK, EpochOf
  <2>3. LastOK' /\ RowsOK'
    BY <2>1 DEF NoOp, LastOK, IInv, RowsOK, BlobOK
  <2> QED
    BY <2>1, <2>2, <2>3, StepEnvironment
<1>3. ASSUME NEW j \in Keys, NEW k \in Keys, Damage(k) \/ Misplace(j, k)
      PROVE  IInv'
  <2>1. UNCHANGED <<settings, memo, ops, held, epochs, shreds>> /\ last' = NoOp
    BY <1>3 DEF Damage, Misplace
  <2>2. LastOK' /\ EpochsOK'
    BY <2>1 DEF NoOp, LastOK, IInv, EpochsOK, EpochOf
  <2>3. RowsOK'
    <3>1. ASSUME NEW x \in DOMAIN rows
          PROVE  /\ rows'[x] = [answer |-> rows'[x].answer, expires |-> rows'[x].expires]
                 /\ BlobOK(rows'[x].answer)
      <4>1. RowsOK
        BY DEF IInv
      <4>2. PICK y \in DOMAIN rows : rows'[x].answer \in {rows[y].answer, Spoilt(rows[y].answer)}
        BY <1>3, <4>1, AfterAccident
      <4>3. BlobOK(rows[y].answer) /\ BlobOK(Spoilt(rows[y].answer))
        BY <4>1 DEF RowsOK, BlobOK, Spoilt
      <4> QED
        BY <1>3, <4>1, <4>2, <4>3, AfterAccident
    <3>2. DOMAIN rows' = DOMAIN rows
      BY <1>3, AfterAccident DEF IInv
    <3> QED
      BY <3>1, <3>2 DEF RowsOK, BlobOK
  <2> QED
    BY <2>1, <2>2, <2>3, StepEnvironment
<1>4. ASSUME KmsChanges \/ Tick \/ UNCHANGED vars
      PROVE  IInv'
  <2>1. UNCHANGED <<settings, memo, ops, rows, held, epochs, shreds>> /\ last' \in {last, NoOp}
    BY <1>4 DEF KmsChanges, Tick, vars
  <2>2. LastOK' /\ RowsOK' /\ EpochsOK'
    BY <2>1 DEF NoOp, LastOK, IInv, RowsOK, BlobOK, EpochsOK, EpochOf
  <2> QED
    BY <2>1, <2>2, StepEnvironment
<1> QED
  BY <1>1, <1>2, <1>3, <1>4

LEMMA StepRestart ==
    ASSUME IInv, Restart
    PROVE  IInv'
<1>1. OpsOK' /\ MemoOK' /\ LastOK'
  BY DEF Restart, OpsOK, OpOK, MemoOK, LastOK, NoOp
<1>2. SettingsOK'
  <2>1. PICK s \in Settings : NextSettings(s, retired') /\ settings' = s
    BY DEF Restart
  <2>2. held' = {}
    BY DEF Restart
  <2> QED
    BY <2>1, <2>2 DEF NextSettings, SettingsOK
<1>3. RowsOK' /\ EpochsOK'
  BY DEF Restart, EpochsKept, IInv, RowsOK, BlobOK, EpochsOK, EpochOf
<1> QED
  BY <1>1, <1>2, <1>3 DEF IInv

LEMMA InitOK ==
    ASSUME Init
    PROVE  IInv
<1>1. OpsOK /\ MemoOK /\ LastOK /\ RowsOK
  BY DEF Init, OpsOK, OpOK, MemoOK, LastOK, NoOp, RowsOK, NoRows
<1>2. SettingsOK
  BY DEF Init, SettingsOK, Settings
<1>3. EpochsOK
  BY ProviderAssumption DEF Init, EpochsOK, EpochOf, Eras
<1> QED
  BY <1>1, <1>2, <1>3 DEF IInv

LEMMA Invariance == Spec => []IInv
<1>1. Init => IInv
  BY InitOK
<1>2. IInv /\ [Next]_vars => IInv'
  <2> SUFFICES ASSUME IInv, [Next]_vars PROVE IInv'
    OBVIOUS
  <2>1. ASSUME NEW op \in {"get", "put"}, NEW k \in Keys, NEW w \in Workers, Begin(w, op, k)
        PROVE  IInv'
    BY <2>1, StepBegin
  <2>2. ASSUME NEW w \in Workers, FinishGet(w) PROVE IInv'
    BY <2>2, StepFinishGet
  <2>3. ASSUME NEW w \in Workers, FinishPut(w) PROVE IInv'
    BY <2>3, StepFinishPut
  <2>4. CASE Restart
    BY <2>4, StepRestart
  <2> QED
    BY <2>1, <2>2, <2>3, <2>4, StepOthers DEF Next
<1> QED
  BY <1>1, <1>2, PTL DEF Spec

-----------------------------------------------------------------------------
(* Theorems. *)

\* Erasure: whatever is in progress when a tenant is shredded, and however
\* often the process restarts and the master changes afterwards, what was put
\* before is never returned to a read that begins after.
THEOREM ErasureHolds == Spec => []ShredErases
<1>1. IInv => ShredErases
  BY DEF IInv, LastOK, ShredErases, Eras
<1> QED
  BY <1>1, Invariance, PTL

\* Integrity: while encryption stays on, a read returns what was put under its
\* key or nothing, even from a file whose bodies were damaged or exchanged.
THEOREM IntegrityHolds == ASSUME ~MayDisable PROVE Spec => []ReadsWhatWasPut
<1>1. IInv => ReadsWhatWasPut
  BY DEF IInv, SettingsOK, LastOK, ReadsWhatWasPut
<1> QED
  BY <1>1, Invariance, PTL

-----------------------------------------------------------------------------
(* Rotation.  A body was sealed under a master that stays configured for    *)
(* one TTL, and one that was replaced was replaced after the body was put.  *)

KeptFor(m, x) ==
    /\ m \in Configured \/ x <= now
    /\ m # settings.master => x <= retired[m] + TTL

BlobKept(b) ==
    /\ b.value.at \in Nat /\ b.value.at <= now
    /\ \/ b.dek \in {Cleartext, Damaged}
       \/ \E m \in Masters : /\ b.dek = Dek(m, TenantOf(b.aad), b.value.era)
                             /\ KeptFor(m, b.value.at + TTL)

KeepInv ==
    /\ now \in Nat /\ retired \in [Masters -> Nat]
    /\ \A k \in DOMAIN rows : BlobKept(rows[k].answer)

LEMMA KeepPut ==
    ASSUME IInv, KeepInv, NEW w \in Workers, FinishPut(w)
    PROVE  KeepInv'
<1>1. ops[w].op \in {"get", "put"}
  BY DEF FinishPut
<1>2. PICK op \in {"get", "put"}, k \in Keys, e \in Eras :
        ops[w] = [op |-> op, key |-> k, era |-> e, cipher |-> CipherOf(TenantOf(k), e)]
  BY <1>1, InProgress
<1> DEFINE b == Sealed(CipherOf(TenantOf(k), e), k, Value(k, e))
<1>3. rows' = AfterPut(rows, k, b, now)
  BY <1>2 DEF FinishPut
<1>4. UNCHANGED <<now, retired, settings>>
  BY DEF FinishPut, clocks
<1>5. \/ b.dek = Cleartext
      \/ b.dek = Dek(settings.master, TenantOf(k), e) /\ settings.master \in Masters
  BY DEF CipherOf, NoCipher, FullCipher, Sealed, IInv, SettingsOK, Settings
<1>6. b.aad = k /\ b.value.era = e /\ b.value.at = now
  BY DEF Sealed, Value
<1> HIDE DEF b
<1>7. BlobKept(b)
  <2>1. KeptFor(settings.master, now + TTL)
    BY DEF KeptFor, Configured
  <2> QED
    BY <1>5, <1>6, <2>1 DEF BlobKept, KeepInv
<1>8. ASSUME NEW x \in DOMAIN rows' PROVE BlobKept(rows'[x].answer)
  <2>1. \/ x \in DOMAIN rows /\ rows'[x] = rows[x]
        \/ rows'[x] = [answer |-> b, expires |-> now + TTL]
    BY <1>3 DEF AfterPut
  <2> QED
    BY <1>7, <2>1 DEF KeepInv
<1> QED
  BY <1>4, <1>8 DEF KeepInv, BlobKept, KeptFor, Configured

LEMMA KeepRestart ==
    ASSUME IInv, KeepInv, Restart
    PROVE  KeepInv'
<1>1. PICK s \in Settings :
        /\ retired' = IF s.master = settings.master THEN retired
                      ELSE [retired EXCEPT ![settings.master] = now]
        /\ NextSettings(s, retired') /\ settings' = s
  BY DEF Restart
<1>2. now' = now /\ rows' = rows
  BY DEF Restart
<1>3. settings.master \in Masters /\ s.master \in Masters
  BY DEF IInv, SettingsOK, Settings
<1>4. retired' \in [Masters -> Nat]
  BY <1>1, <1>3 DEF KeepInv
<1>5. ASSUME NEW m \in Masters, NEW x \in Nat, x <= now + TTL, KeptFor(m, x)
      PROVE  KeptFor(m, x)'
  <2>1. m # s.master => x <= retired'[m] + TTL
    BY <1>1, <1>3, <1>5 DEF KeptFor, KeepInv
  <2>2. m \in Configured /\ m # s.master /\ now < retired'[m] + TTL => m \in s.previous
    BY <1>1 DEF NextSettings
  <2>3. now \in Nat /\ retired'[m] + TTL \in Nat
    BY <1>4, TTLAssumption DEF KeepInv
  <2>4. m \in s.previous \union {s.master} \/ x <= now
    BY <1>5, <2>1, <2>2, <2>3 DEF KeptFor
  <2> QED
    BY <1>1, <1>2, <2>1, <2>4 DEF KeptFor, Configured
<1>6. ASSUME NEW k \in DOMAIN rows PROVE BlobKept(rows[k].answer)'
  <2> DEFINE b == rows[k].answer
             x == b.value.at + TTL
  <2>1. BlobKept(b) /\ now \in Nat
    BY DEF KeepInv
  <2>2. x \in Nat /\ x <= now + TTL
    BY <2>1, TTLAssumption DEF BlobKept
  <2> QED
    BY <1>2, <1>5, <2>1, <2>2 DEF BlobKept
<1> QED
  BY <1>2, <1>4, <1>6 DEF KeepInv

\* A step that leaves the settings alone and moves bodies at most.
LEMMA KeepOthers ==
    ASSUME KeepInv, UNCHANGED <<settings, retired>>, now' \in {now, now + 1},
           \A k \in DOMAIN rows' : \E j \in DOMAIN rows :
              rows'[k].answer \in {rows[j].answer, Spoilt(rows[j].answer)}
    PROVE  KeepInv'
<1>1. ASSUME NEW j \in DOMAIN rows, NEW b, b \in {rows[j].answer, Spoilt(rows[j].answer)}
      PROVE  BlobKept(b)
  BY <1>1 DEF KeepInv, BlobKept, Spoilt
<1>2. ASSUME NEW k \in DOMAIN rows' PROVE BlobKept(rows'[k].answer)
  BY <1>1
<1>3. ASSUME NEW m, NEW x \in Nat, KeptFor(m, x)
      PROVE  KeptFor(m, x)'
  BY <1>3 DEF KeepInv, KeptFor, Configured
<1>4. ASSUME NEW k \in DOMAIN rows' PROVE BlobKept(rows[k].answer)'
  <2> DEFINE b == rows'[k].answer
             x == b.value.at + TTL
  <2>1. BlobKept(b) /\ now \in Nat
    BY <1>2 DEF KeepInv
  <2>2. x \in Nat /\ b.value.at <= now'
    BY <2>1, TTLAssumption DEF BlobKept
  <2> QED
    BY <1>3, <2>1, <2>2 DEF BlobKept
<1> QED
  BY <1>4 DEF KeepInv

\* Rotation loses nothing, however often the master is replaced, restarts
\* intervene and bodies are moved about.
THEOREM RotationLosesNothing == Spec => []NoLostEntry
<1>1. Init => KeepInv
  BY DEF Init, KeepInv, NoRows
<1>2. IInv /\ KeepInv /\ [Next]_vars => KeepInv'
  <2> SUFFICES ASSUME IInv, KeepInv, [Next]_vars PROVE KeepInv'
    OBVIOUS
  <2>1. ASSUME NEW w \in Workers, FinishPut(w) PROVE KeepInv'
    BY <2>1, KeepPut
  <2>2. CASE Restart
    BY <2>2, KeepRestart
  <2>3. ASSUME NEW w \in Workers, FinishGet(w) PROVE KeepInv'
    <3>1. UNCHANGED <<settings, retired, now>> /\ rows' = AfterGet(rows, ops[w].key, now)
      BY <2>3 DEF FinishGet, clocks
    <3>2. \A k \in DOMAIN rows' : k \in DOMAIN rows /\ rows'[k] = rows[k]
      BY <3>1 DEF AfterGet
    <3> QED
      BY <3>1, <3>2, KeepOthers
  <2>4. ASSUME NEW op \in {"get", "put"}, NEW k \in Keys,
               Raises(op, k) \/ Withhold(op, k) \/ \E w \in Workers : Begin(w, op, k)
        PROVE  KeepInv'
    BY <2>4, KeepOthers DEF Raises, Withhold, Begin, clocks
  <2>5. ASSUME NEW t \in Tenants, Shred(t) PROVE KeepInv'
    BY <2>5, KeepOthers DEF Shred, clocks
  <2>6. CASE KmsChanges \/ Tick \/ UNCHANGED vars
    BY <2>6, KeepOthers DEF KmsChanges, Tick, vars, clocks
  <2>7. ASSUME NEW j \in Keys, NEW k \in Keys, Damage(k) \/ Misplace(j, k)
        PROVE  KeepInv'
    <3>1. UNCHANGED <<settings, retired, now>>
      BY <2>7 DEF Damage, Misplace, clocks
    <3>2. \A x \in DOMAIN rows' : \E y \in DOMAIN rows :
             rows'[x].answer \in {rows[y].answer, Spoilt(rows[y].answer)}
      BY <2>7, AfterAccident DEF IInv
    <3> QED
      BY <3>1, <3>2, KeepOthers
  <2> QED
    BY <2>1, <2>2, <2>3, <2>4, <2>5, <2>6, <2>7 DEF Next
<1>3. IInv /\ KeepInv => NoLostEntry
  <2> SUFFICES ASSUME IInv, KeepInv, NEW k \in DOMAIN rows,
                      now < rows[k].answer.value.at + TTL,
                      rows[k].answer.dek \notin {Cleartext, Damaged},
                      rows[k].answer.aad = k,
                      rows[k].answer.value.era = shreds[TenantOf(k)]
               PROVE  Opens(CipherFor(TenantOf(k)), k, rows[k].answer)
    BY DEF NoLostEntry
  <2> DEFINE b == rows[k].answer
             t == TenantOf(k)
  <2>1. BlobKept(b) /\ now \in Nat
    BY DEF KeepInv
  <2>2. PICK m \in Masters : b.dek = Dek(m, t, b.value.era) /\ KeptFor(m, b.value.at + TTL)
    BY <2>1 DEF BlobKept
  <2>3. m \in Configured
    BY <2>1, <2>2, TTLAssumption DEF KeptFor, BlobKept
  <2>4. k \in Keys
    BY DEF IInv, RowsOK, BlobOK
  <2>5. CipherFor(t) = FullCipher(t, shreds[t])
    BY <2>4, CipherIsFull DEF Keys, TenantOf
  <2> QED
    BY <2>2, <2>3, <2>5 DEF Opens, FullCipher
<1> QED
  BY <1>1, <1>2, <1>3, Invariance, PTL DEF Spec

-----------------------------------------------------------------------------
(* Types, with the bound on what a row lives.                              *)

LEMMA CipherTyped ==
    ASSUME SettingsOK, NEW t \in Tenants, NEW e \in Eras
    PROVE  FullCipher(t, e) \in Ciphers /\ NoCipher \in Ciphers
<1>1. settings.master \in Masters /\ Configured \subseteq Masters
  BY DEF SettingsOK, Settings, Configured
<1>2. \A m \in Masters : Dek(m, t, e) \in Deks
  BY DEF Dek, Deks, Eras
<1> QED
  BY <1>1, <1>2 DEF FullCipher, NoCipher, Ciphers

\* What IInv says of the types, but for those of the rows.
LEMMA OpsTyped ==
    ASSUME IInv
    PROVE  /\ ops \in [Workers -> Operations \union {NoOp}]
           /\ settings \in Settings /\ held \in {{}, Configured}
           /\ shreds \in [Tenants -> 0..MaxShreds]
<1>1. ASSUME NEW w \in Workers PROVE ops[w] \in Operations \union {NoOp}
  <2>1. CASE ops[w] = NoOp
    BY <2>1
  <2>2. CASE ops[w] # NoOp
    <3>1. PICK op \in {"get", "put"}, k \in Keys, e \in Eras :
            ops[w] = [op |-> op, key |-> k, era |-> e, cipher |-> CipherOf(TenantOf(k), e)]
      BY <2>2 DEF IInv, OpsOK, OpOK
    <3>2. TenantOf(k) \in Tenants
      BY DEF Keys, TenantOf
    <3>3. CipherOf(TenantOf(k), e) \in Ciphers
      BY <3>2, CipherTyped DEF IInv, CipherOf
    <3> QED
      BY <3>1, <3>3 DEF Operations, Eras
  <2> QED
    BY <2>1, <2>2
<1> QED
  BY <1>1 DEF IInv, OpsOK, SettingsOK, EpochsOK, Eras

\* The types IInv does not give.
RowTyped(r, t) == r.answer \in Blobs /\ r.expires \in 0..(t + TTL)

RowsTyped ==
    /\ now \in Nat
    /\ DOMAIN rows \subseteq Keys
    /\ \A k \in DOMAIN rows : RowTyped(rows[k], now)

RestTyped ==
    /\ restarts \in Nat /\ kms \subseteq Masters
    /\ DOMAIN memo \subseteq Tenants \X (0..MaxShreds)
    /\ epochs \in [Tenants -> 0..MaxShreds]
    /\ last \in Outcomes \union {NoOp}
    /\ retired \in [Masters -> Nat]

LEMMA RowsTypedStep ==
    ASSUME IInv, RowsTyped, [Next]_vars
    PROVE  RowsTyped'
<1>0. now \in Nat /\ TTL \in Nat /\ (now' = now \/ now' = now + 1)
  BY TTLAssumption DEF RowsTyped, Next, vars, clocks, Raises, Withhold, Begin, FinishGet,
     FinishPut, Shred, Damage, Misplace, Restart, KmsChanges, Tick
<1>1. \A r : RowTyped(r, now) => RowTyped(r, now')
  BY <1>0 DEF RowTyped
\* A step that only drops rows.
<1>2. ASSUME DOMAIN rows' \subseteq DOMAIN rows, \A x \in DOMAIN rows' : rows'[x] = rows[x]
      PROVE  RowsTyped'
  BY <1>0, <1>1, <1>2 DEF RowsTyped
<1>3. ASSUME NEW w \in Workers, FinishGet(w) PROVE RowsTyped'
  <2>1. rows' = AfterGet(rows, ops[w].key, now)
    BY <1>3 DEF FinishGet
  <2> QED
    BY <2>1, <1>2 DEF AfterGet
<1>4. ASSUME NEW w \in Workers, FinishPut(w) PROVE RowsTyped'
  <2> DEFINE k == ops[w].key
             b == Sealed(ops[w].cipher, k, Value(k, ops[w].era))
  <2>1. ops[w] \in Operations
    BY <1>4, OpsTyped DEF FinishPut, NoOp
  <2>2. b \in Blobs /\ k \in Keys
    BY <2>1, <1>0 DEF Operations, Ciphers, Sealed, Value, Values, Blobs
  <2>3. rows' = AfterPut(rows, k, b, now) /\ now' = now
    BY <1>4 DEF FinishPut, clocks
  <2> HIDE DEF k, b
  <2>4. RowTyped([answer |-> b, expires |-> now + TTL], now)
    BY <2>2, <1>0 DEF RowTyped
  <2> QED
    BY <2>2, <2>3, <2>4 DEF AfterPut, RowsTyped
<1>5. ASSUME NEW j \in Keys, NEW k \in Keys, Damage(k) \/ Misplace(j, k)
      PROVE  RowsTyped'
  <2>1. now' = now /\ k \in DOMAIN rows
    BY <1>5 DEF Damage, Misplace, clocks
  <2>2. /\ rows[k] = [answer |-> rows[k].answer, expires |-> rows[k].expires]
        /\ rows[k].answer = [dek |-> rows[k].answer.dek, aad |-> rows[k].answer.aad,
                             value |-> rows[k].answer.value]
    BY <2>1 DEF IInv, RowsOK, BlobOK
  <2>3. CASE Damage(k)
    <3>1. /\ DOMAIN rows' = DOMAIN rows
          /\ \A x \in DOMAIN rows \ {k} : rows'[x] = rows[x]
          /\ rows'[k] = [rows[k] EXCEPT !.answer.dek = Damaged]
      BY <2>3, <2>1 DEF Damage
    <3>2. rows[k].answer \in Blobs /\ RowTyped(rows[k], now)
      BY <2>1 DEF RowsTyped, RowTyped
    <3>3. /\ rows'[k].expires = rows[k].expires
          /\ rows'[k].answer = [rows[k].answer EXCEPT !.dek = Damaged]
      BY <3>1, <2>2
    <3>4. rows'[k].answer \in Blobs
      BY <3>2, <3>3 DEF Blobs
    <3> QED
      BY <3>1, <3>2, <3>3, <3>4, <2>1 DEF RowsTyped, RowTyped
  <2>4. CASE Misplace(j, k)
    <3>1. /\ DOMAIN rows' = DOMAIN rows /\ j \in DOMAIN rows
          /\ \A x \in DOMAIN rows \ {k} : rows'[x] = rows[x]
          /\ rows'[k] = [rows[k] EXCEPT !.answer = rows[j].answer]
      BY <2>4, <2>1 DEF Misplace
    <3>2. rows'[k].expires = rows[k].expires /\ rows'[k].answer = rows[j].answer
      BY <3>1, <2>2
    <3> QED
      BY <3>1, <3>2, <2>1 DEF RowsTyped, RowTyped
  <2> QED
    BY <1>5, <2>3, <2>4
<1>6. CASE rows' = rows
  BY <1>6, <1>2
<1> QED
  BY <1>3, <1>4, <1>5, <1>6
  DEF Next, vars, Raises, Withhold, Begin, Shred, Restart, KmsChanges, Tick

LEMMA RestTypedStep ==
    ASSUME IInv, IInv', RowsTyped, RestTyped, [Next]_vars
    PROVE  RestTyped'
<1>1. /\ shreds \in [Tenants -> 0..MaxShreds] /\ shreds' \in [Tenants -> 0..MaxShreds]
      /\ 0 \in 0..MaxShreds /\ MaxShreds \in Nat
      /\ \A t \in Tenants : EpochOf(t) \in 0..MaxShreds
  BY ProviderAssumption DEF IInv, EpochsOK, Eras
<1>2. \A k \in Keys : TenantOf(k) \in Tenants
  BY DEF Keys, TenantOf
<1>3. DOMAIN memo' \subseteq Tenants \X (0..MaxShreds)
  <2>1. ASSUME NEW w \in Workers, NEW op \in {"get", "put"}, NEW k \in Keys, Begin(w, op, k)
        PROVE  DOMAIN memo' \subseteq Tenants \X (0..MaxShreds)
    <3>1. MemoKey(TenantOf(k)) \in Tenants \X (0..MaxShreds)
      BY <1>1, <1>2 DEF MemoKey
    <3>2. memo' = memo \/ memo' = Remembering(TenantOf(k))
      BY <2>1 DEF Begin
    <3> QED
      BY <3>1, <3>2 DEF Remembering, RestTyped
  <2>2. CASE memo' = memo \/ DOMAIN memo' = {}
    BY <2>2 DEF RestTyped
  <2> QED
    BY <2>1, <2>2 DEF Next, vars, Raises, Withhold, FinishGet, FinishPut, Shred, Damage,
       Misplace, Restart, KmsChanges, Tick
<1>4. epochs' \in [Tenants -> 0..MaxShreds]
  <2>1. ASSUME NEW t \in Tenants, Shred(t) PROVE epochs' \in [Tenants -> 0..MaxShreds]
    <3>1. \A u \in Tenants : epochs'[u] = shreds'[u]
      BY <2>1 DEF Shred, IInv, EpochsOK, EpochOf
    <3>2. epochs' = [epochs EXCEPT ![t] = Bumped(t)]
      BY <2>1 DEF Shred
    <3> QED
      BY <1>1, <3>1, <3>2 DEF RestTyped
  <2>2. CASE epochs' = epochs
    BY <2>2 DEF RestTyped
  <2> QED
    BY <2>1, <2>2 DEF Next, vars, Raises, Withhold, Begin, FinishGet, FinishPut, Damage,
       Misplace, Restart, EpochsKept, KmsChanges, Tick
<1>5. last' \in Outcomes \union {NoOp}
  <2>1. ASSUME NEW w \in Workers, FinishGet(w) PROVE last' \in Outcomes
    <3>1. ops[w] \in Operations
      BY <2>1, OpsTyped DEF FinishGet, NoOp
    <3> DEFINE k == ops[w].key
               e == ops[w].era
    <3>2. k \in Keys /\ e \in 0..MaxShreds
      BY <3>1 DEF Operations
    <3>3. Fresh(rows, k, now) => rows[k].answer.value \in Values
      BY DEF Fresh, RowsTyped, RowTyped, Blobs
    <3>4. \/ last' = Done("get", k, e, "miss")
          \/ last' = Done("get", k, e, "garbled")
          \/ Fresh(rows, k, now) /\ last' = Hit(k, e, rows[k].answer.value)
      BY <2>1 DEF FinishGet
    <3> HIDE DEF k, e
    <3> QED
      BY <3>2, <3>3, <3>4 DEF Done, Hit, Outcomes
  <2>2. ASSUME NEW w \in Workers, FinishPut(w) PROVE last' \in Outcomes
    <3>1. ops[w] \in Operations
      BY <2>2, OpsTyped DEF FinishPut, NoOp
    <3> QED
      BY <2>2, <3>1 DEF FinishPut, Operations, Done, Outcomes
  <2>3. ASSUME NEW op \in {"get", "put"}, NEW k \in Keys, Raises(op, k) \/ Withhold(op, k)
        PROVE  last' \in Outcomes
    <3>1. shreds[TenantOf(k)] \in 0..MaxShreds
      BY <1>1, <1>2
    <3> QED
      BY <2>3, <3>1 DEF Raises, Withhold, Done, Outcomes
  <2>4. CASE last' \in {last, NoOp}
    BY <2>4 DEF RestTyped
  <2> QED
    BY <2>1, <2>2, <2>3, <2>4 DEF Next, vars, Begin, Shred, Damage, Misplace, Restart,
       KmsChanges, Tick
<1>6. retired' \in [Masters -> Nat] /\ restarts' \in Nat
  BY DEF RestTyped, RowsTyped, Next, vars, clocks, Raises, Withhold, Begin, FinishGet,
     FinishPut, Shred, Damage, Misplace, Restart, KmsChanges, Tick
<1>7. kms' \subseteq Masters
  BY DEF RestTyped, Next, vars, Raises, Withhold, Begin, FinishGet,
     FinishPut, Shred, Damage, Misplace, Restart, KmsChanges, Tick
<1> QED
  BY <1>3, <1>4, <1>5, <1>6, <1>7 DEF RestTyped

\* Rows live one TTL at most, whatever happens to the file, and the masters at
\* hand are all those configured or none.
THEOREM TypeCorrect == Spec => []TypeOK
<1>1. Init => RowsTyped /\ RestTyped
  <2> SUFFICES ASSUME Init PROVE RowsTyped /\ RestTyped
    OBVIOUS
  <2>1. RowsTyped
    BY DEF Init, RowsTyped, NoRows
  <2>2. RestTyped
    BY ProviderAssumption DEF Init, RestTyped
  <2> QED
    BY <2>1, <2>2
<1>2. IInv /\ IInv' /\ RowsTyped /\ RestTyped /\ [Next]_vars => RowsTyped' /\ RestTyped'
  BY RowsTypedStep, RestTypedStep
<1>3. IInv /\ RowsTyped /\ RestTyped => TypeOK
  <2> SUFFICES ASSUME IInv, RowsTyped, RestTyped PROVE TypeOK
    OBVIOUS
  <2>1. ASSUME NEW x \in DOMAIN memo PROVE memo[x] \in Ciphers
    <3>1. x[1] \in Tenants /\ x[2] \in Eras
      BY DEF RestTyped, Eras
    <3> QED
      BY <3>1, CipherTyped DEF IInv, MemoOK
  <2> QED
    BY <2>1, OpsTyped DEF TypeOK, RowsTyped, RowTyped, RestTyped
<1> QED
  BY <1>1, <1>2, <1>3, Invariance, PTL DEF Spec
=============================================================================
