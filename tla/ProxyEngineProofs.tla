-------------------------- MODULE ProxyEngineProofs --------------------------
(***************************************************************************)
(* Proofs about the request path, for every set of requests, slots and     *)
(* tenants, every TTL, threshold and cap, every combination of failures,   *)
(* and every way the wall clock may be set.                                *)
(*                                                                         *)
(* The soundness of the stores and the isolation of tenants hold together: *)
(* what an answer leaves in the stores is sound because the request in     *)
(* progress is, and what is replayed is the tenant's own because the       *)
(* stores are sound.                                                       *)
(***************************************************************************)
EXTENDS ProxyEngine, TokenBucketProofs, SequenceTheorems

-----------------------------------------------------------------------------
(* The inductive invariant.                                                *)

SoundEntries == {e \in Entries : EntrySound(e)}

\* A request that waits with a key may be stored under it.
Storable(call) ==
    call.key # NoKey =>
        /\ call.key = Key(call.req)
        /\ call.context = {}
        /\ ~call.req.secret /\ ~call.req.stream

CallSound(call) ==
    /\ call.state = "waiting" =>
          /\ call.req \in Requests
          /\ Storable(call)
          /\ call.context \subseteq TextsOf(Tenant(call.req))
    /\ call.state = "done" /\ call.answer # NoAnswer =>
          Tenant(call.answer.req) = Tenant(call.req)

CallsSound == DOMAIN calls = Slots /\ \A s \in Slots : CallSound(calls[s])

EntriesSound == index \in Seq(SoundEntries) /\ snapshot \in Seq(SoundEntries)

MemorySound ==
    /\ DOMAIN memory = Tenants
    /\ \A t \in Tenants : memory[t] \subseteq TextsOf(t)

AnswersSound ==
    \A a \in answers : a.req \in Requests /\ a.context \subseteq TextsOf(Tenant(a.req))

IInv == CallsSound /\ CacheSound /\ EntriesSound /\ MemorySound /\ AnswersSound

-----------------------------------------------------------------------------
(* The operators.                                                          *)

\* A request with a cache key has its own, is forwarded as it came, holds no
\* credential and asks for no stream.
LEMMA CacheKeySound ==
    ASSUME NEW r \in Requests, NEW c, NEW faults, CacheKey(r, c, faults) # NoKey
    PROVE  /\ CacheKey(r, c, faults) = Key(r)
           /\ c = {}
           /\ ~r.secret /\ ~r.stream
BY DEF CacheKey

\* A request is one of its tenant's.
LEMMA TenantOfRequest ==
    ASSUME NEW r \in Requests
    PROVE  Tenant(r) \in Tenants /\ r.text \in TextsOf(Tenant(r))
BY DEF Tenants, TextsOf

\* Requests with the same key are the same tenant's.
LEMMA KeyTellsTenant ==
    ASSUME NEW q, NEW r, Key(q) = Key(r)
    PROVE  Tenant(q) = Tenant(r)
<1>1. Key(q).tenant = Key(r).tenant
  OBVIOUS
<1> QED
  BY <1>1 DEF Key

\* Reading the table only deletes.
LEMMA ReadOnlyDeletes ==
    ASSUME NEW table, NEW k, NEW t
    PROVE  /\ DOMAIN AfterGet(table, k, t) \subseteq DOMAIN table
           /\ \A x \in DOMAIN AfterGet(table, k, t) : AfterGet(table, k, t)[x] = table[x]
BY DEF AfterGet

\* So do the two lookups of a request.
LEMMA LookupsOnlyDelete ==
    ASSUME NEW r, NEW k, NEW faults
    PROVE  /\ \A x \in DOMAIN RowsAfterExact(k, faults) :
                  x \in DOMAIN rows /\ RowsAfterExact(k, faults)[x] = rows[x]
           /\ \A x \in DOMAIN RowsAfterSimilar(r, k, faults) :
                  x \in DOMAIN rows /\ RowsAfterSimilar(r, k, faults)[x] = rows[x]
<1> DEFINE before == RowsAfterExact(k, faults)
<1>1. \A x \in DOMAIN before : x \in DOMAIN rows /\ before[x] = rows[x]
  BY ReadOnlyDeletes DEF RowsAfterExact
<1>2. ASSUME NEW n
      PROVE  \A x \in DOMAIN AfterGet(before, n, Wall) :
                 x \in DOMAIN before /\ AfterGet(before, n, Wall)[x] = before[x]
  BY ReadOnlyDeletes
<1>3. RowsAfterSimilar(r, k, faults) = before
         \/ \E n : RowsAfterSimilar(r, k, faults) = AfterGet(before, n, Wall)
  BY DEF RowsAfterSimilar
<1> HIDE DEF before
<1> QED
  BY <1>1, <1>2, <1>3 DEF before

\* ... and what they leave is a table again.
LEMMA LookupsAreTables ==
    ASSUME NEW r, NEW k, NEW faults, rows = [x \in DOMAIN rows |-> rows[x]]
    PROVE  /\ RowsAfterExact(k, faults)
                = [x \in DOMAIN RowsAfterExact(k, faults) |-> RowsAfterExact(k, faults)[x]]
           /\ RowsAfterSimilar(r, k, faults)
                = [x \in DOMAIN RowsAfterSimilar(r, k, faults) |-> RowsAfterSimilar(r, k, faults)[x]]
<1>1. ASSUME NEW table, table = [x \in DOMAIN table |-> table[x]], NEW n
      PROVE  AfterGet(table, n, Wall)
                = [x \in DOMAIN AfterGet(table, n, Wall) |-> AfterGet(table, n, Wall)[x]]
  BY <1>1 DEF AfterGet
<1> DEFINE before == RowsAfterExact(k, faults)
<1>2. before = rows \/ before = AfterGet(rows, k, Wall)
  BY DEF RowsAfterExact
<1>3. RowsAfterSimilar(r, k, faults) = before
         \/ \E n : RowsAfterSimilar(r, k, faults) = AfterGet(before, n, Wall)
  BY DEF RowsAfterSimilar
<1> HIDE DEF before
<1>4. before = [x \in DOMAIN before |-> before[x]]
  BY <1>1, <1>2
<1> QED
  BY <1>1, <1>3, <1>4 DEF before

\* What an exact hit replays is a sound and fresh row of the request's key.
LEMMA ExactIsRow ==
    ASSUME NEW k, NEW faults, Exact(k, faults) # NoAnswer
    PROVE  /\ k \in DOMAIN rows
           /\ Exact(k, faults) = rows[k].answer
           /\ Wall < rows[k].expires
BY DEF Exact, Found, Fresh

\* The neighbour the index names is the key of one of its candidates.
LEMMA NeighbourIsCandidate ==
    ASSUME NEW ix, NEW text, NEW model, NEW tenant,
           Neighbour(ix, text, model, tenant) # NoKey
    PROVE  \E i \in Candidates(ix, text, model, tenant) :
               Neighbour(ix, text, model, tenant) = ix[i].key
<1> DEFINE near == Candidates(ix, text, model, tenant)
           score(i) == Score[text][ix[i].vector]
           Best(i) == \A j \in near :
                         score(j) < score(i) \/ (score(j) = score(i) /\ j <= i)
<1>1. Neighbour(ix, text, model, tenant) =
        IF \E i \in near : Best(i) THEN ix[CHOOSE i \in near : Best(i)].key ELSE NoKey
  BY DEF Neighbour
<1> HIDE DEF Best, near
<1>2. \E i \in near : Best(i)
  BY <1>1
<1>3. (CHOOSE i \in near : Best(i)) \in near
  BY <1>2
<1> QED
  BY <1>1, <1>2, <1>3 DEF near

\* What a similar hit replays is a fresh row, of a key that an entry of the
\* index holds for this model, this tenant and a text that is close enough.
LEMMA SimilarIsRow ==
    ASSUME NEW r, NEW k, NEW faults, Similar(r, k, faults) # NoAnswer
    PROVE  /\ Similarity /\ k # NoKey
           /\ \E i \in Candidates(index, r.text, r.model, Tenant(r)) :
                 /\ index[i].key \in DOMAIN rows
                 /\ Similar(r, k, faults) = rows[index[i].key].answer
                 /\ Wall < rows[index[i].key].expires
<1> DEFINE n == SimilarKey(r, k, faults)
           before == RowsAfterExact(k, faults)
<1>1. n # NoKey /\ Similar(r, k, faults) = Found(before, n, Wall)
  BY DEF Similar
<1>2. Similarity /\ k # NoKey /\ n = Neighbour(index, r.text, r.model, Tenant(r))
  BY <1>1 DEF SimilarKey
<1> HIDE DEF n, before
<1>3. PICK i \in Candidates(index, r.text, r.model, Tenant(r)) : n = index[i].key
  BY <1>1, <1>2, NeighbourIsCandidate
<1>4. n \in DOMAIN before /\ Wall < before[n].expires /\ Found(before, n, Wall) = before[n].answer
  BY <1>1 DEF Found, Fresh
<1>5. n \in DOMAIN rows /\ before[n] = rows[n]
  BY <1>4, LookupsOnlyDelete DEF before
<1> QED
  BY <1>1, <1>2, <1>3, <1>4, <1>5

-----------------------------------------------------------------------------
(* The invariant is inductive: one lemma for each part of the state.       *)

\* A sound row stays sound when answers are added.
LEMMA SoundRowsStay ==
    ASSUME CacheSound, answers \subseteq answers',
           \A x \in DOMAIN rows' : x \in DOMAIN rows /\ rows'[x] = rows[x]
    PROVE  CacheSound'
BY DEF CacheSound, RowSound

\* Requests that arrive take over the tenant's own memory, no one else's.
LEMMA ContextSound ==
    ASSUME NEW r \in Requests, NEW m, NEW faults,
           m[Tenant(r)] \subseteq TextsOf(Tenant(r)),
           NEW c \in Compactions(r, m, faults)
    PROVE  c \subseteq TextsOf(Tenant(r))
<1>1. r.text \in TextsOf(Tenant(r))
  BY TenantOfRequest
<1>2. \/ c = {} \/ c = {r.text} \/ c \in SUBSET m[Tenant(r)]
  BY DEF Compactions
<1> QED
  BY <1>1, <1>2

\* What ingestion leaves, whether it fails or not.
LEMMA IngestedSound ==
    ASSUME MemorySound, NEW r \in Requests, NEW faults,
           memory' \in Ingested(r, faults)
    PROVE  MemorySound'
<1>1. memory' = memory \/ memory' = [memory EXCEPT ![Tenant(r)] = @ \union {r.text}]
  BY DEF Ingested
<1> QED
  BY <1>1, TenantOfRequest DEF MemorySound

\* The newest entries of a sequence, at most the cap.
LEMMA NewestType ==
    ASSUME NEW S, NEW entries \in Seq(S)
    PROVE  /\ Newest(entries, MaxEntries) \in Seq(S)
           /\ Len(Newest(entries, MaxEntries)) <= MaxEntries
<1>1. Len(entries) \in Nat /\ MaxEntries \in Nat
  BY IndexAssumption, LenProperties
<1>2. CASE Len(entries) > MaxEntries
  <2>1. \A i \in (Len(entries) - MaxEntries + 1)..Len(entries) : entries[i] \in S
    BY <1>1, <1>2, ElementOfSeq
  <2> DEFINE first == Len(entries) - MaxEntries + 1
             last == Len(entries)
  <2>2. first \in Int /\ last \in Int /\ last - first + 1 = MaxEntries
    BY <1>1
  <2>3. \A i \in first..last : entries[i] \in S
    BY <2>1
  <2>4. Newest(entries, MaxEntries) = SubSeq(entries, first, last)
    BY <1>2 DEF Newest
  <2> HIDE DEF first, last
  <2>5. /\ SubSeq(entries, first, last) \in Seq(S)
        /\ Len(SubSeq(entries, first, last)) = IF first <= last THEN last - first + 1 ELSE 0
    BY <2>2, <2>3, SubSeqProperties
  <2> QED
    BY <1>1, <2>2, <2>4, <2>5
<1>3. CASE ~(Len(entries) > MaxEntries)
  BY <1>1, <1>3 DEF Newest
<1> QED
  BY <1>2, <1>3

\* Remembering a sound entry, in memory and on disk.
LEMMA RememberedSound ==
    ASSUME NEW entries \in Seq(SoundEntries), NEW e \in SoundEntries
    PROVE  /\ Remembered(entries, e) \in Seq(SoundEntries)
           /\ Persisted(entries, e) \in Seq(SoundEntries)
<1> DEFINE longer == Append(entries, e)
<1>1. longer \in Seq(SoundEntries) /\ longer # << >>
  BY AppendProperties
<1> HIDE DEF longer
<1>2. Tail(longer) \in Seq(SoundEntries)
  BY <1>1, HeadTailProperties
<1>3. Remembered(entries, e) \in Seq(SoundEntries)
  BY <1>1, <1>2 DEF Remembered, longer
<1>4. Persisted(entries, e) \in Seq(SoundEntries)
  BY <1>1, NewestType DEF Persisted, longer
<1> QED
  BY <1>3, <1>4

\* The entry of a request that waits with a key.
LEMMA EntryIsSound ==
    ASSUME NEW r \in Requests, ~r.secret, ~r.stream
    PROVE  Entry(r, Key(r)) \in SoundEntries
<1>1. Entry(r, Key(r)) \in Entries
  BY DEF Entry, Entries, Texts, Keys, Models, Tenants
<1>2. EntrySound(Entry(r, Key(r)))
  BY DEF EntrySound, Entry
<1> QED
  BY <1>1, <1>2 DEF SoundEntries

\* What is replayed comes from the tenant's own requests.
LEMMA ReplayIsOwn ==
    ASSUME CacheSound, EntriesSound, NEW r \in Requests, NEW c, NEW faults
    PROVE  LET k == CacheKey(r, c, faults) IN
           /\ Exact(k, faults) # NoAnswer => Tenant(Exact(k, faults).req) = Tenant(r)
           /\ Similar(r, k, faults) # NoAnswer => Tenant(Similar(r, k, faults).req) = Tenant(r)
<1> DEFINE k == CacheKey(r, c, faults)
<1>1. ASSUME Exact(k, faults) # NoAnswer
      PROVE  Tenant(Exact(k, faults).req) = Tenant(r)
  <2>1. k # NoKey
    BY <1>1 DEF Exact
  <2>2. k = Key(r)
    BY <2>1, CacheKeySound
  <2> HIDE DEF k
  <2>3. k \in DOMAIN rows /\ Exact(k, faults) = rows[k].answer
    BY <1>1, ExactIsRow
  <2>4. Key(rows[k].answer.req) = k
    BY <2>3 DEF CacheSound, RowSound
  <2> QED
    BY <2>2, <2>3, <2>4, KeyTellsTenant
<1>2. ASSUME Similar(r, k, faults) # NoAnswer
      PROVE  Tenant(Similar(r, k, faults).req) = Tenant(r)
  <2> HIDE DEF k
  <2>1. PICK i \in Candidates(index, r.text, r.model, Tenant(r)) :
               /\ index[i].key \in DOMAIN rows
               /\ Similar(r, k, faults) = rows[index[i].key].answer
    BY <1>2, SimilarIsRow
  <2>2. i \in DOMAIN index /\ index[i].tenant = Tenant(r)
    BY <2>1 DEF Candidates
  <2>3. EntrySound(index[i])
    BY <2>2, ElementOfSeq, LenProperties DEF EntriesSound, SoundEntries
  <2>4. PICK q \in Requests : index[i].key = Key(q) /\ index[i].tenant = Tenant(q)
    BY <2>3 DEF EntrySound
  <2>5. Key(rows[index[i].key].answer.req) = Key(q)
    BY <2>1, <2>4 DEF CacheSound, RowSound
  <2> QED
    BY <2>1, <2>2, <2>4, <2>5, KeyTellsTenant
<1> QED
  BY <1>1, <1>2

-----------------------------------------------------------------------------
(* The steps.                                                              *)

LEMMA InitSound == Init => IInv
<1> SUFFICES ASSUME Init PROVE IInv
  OBVIOUS
<1>1. CallsSound
  BY DEF Init, CallsSound, CallSound, Idle
<1>2. CacheSound
  BY DEF Init, CacheSound, NoRows
<1>3. EntriesSound
  BY EmptySeq DEF Init, EntriesSound
<1>4. MemorySound /\ AnswersSound
  BY DEF Init, MemorySound, AnswersSound
<1> QED
  BY <1>1, <1>2, <1>3, <1>4 DEF IInv

\* A step that replaces one call by a sound one leaves the calls sound.
LEMMA CallReplaced ==
    ASSUME CallsSound, NEW s \in Slots, NEW call, CallSound(call),
           calls' = [calls EXCEPT ![s] = call]
    PROVE  CallsSound'
<1>1. DOMAIN calls' = Slots
  BY DEF CallsSound
<1>2. \A u \in Slots : calls'[u] = IF u = s THEN call ELSE calls[u]
  BY DEF CallsSound
<1>3. \A u \in Slots : CallSound(calls'[u])
  BY <1>2 DEF CallsSound
<1> QED
  BY <1>1, <1>3 DEF CallsSound, CallSound, Storable

\* A reply without an answer is sound whatever it says.
LEMMA EmptyReplySound ==
    ASSUME NEW r, NEW outcome
    PROVE  CallSound(Done(r, outcome, NoAnswer))
BY DEF CallSound, Done

\* A refused or shed request touches no store.
LEMMA TurnedAwaySound ==
    ASSUME IInv, NEW s \in Slots, NEW r \in Requests, Refuse(s, r) \/ Shed(s, r)
    PROVE  IInv'
<1>1. PICK outcome : calls' = [calls EXCEPT ![s] = Done(r, outcome, NoAnswer)]
  BY DEF Refuse, Shed, Reply
<1>2. CallsSound'
  BY <1>1, EmptyReplySound, CallReplaced DEF IInv
<1>3. UNCHANGED <<rows, index, snapshot, memory, answers>>
  BY DEF Refuse, Shed, stores
<1> QED
  BY <1>2, <1>3
  DEF IInv, CacheSound, RowSound, EntriesSound, MemorySound, AnswersSound

\* An arrival: a replay from the stores, or a call to the provider.
LEMMA ArriveSound ==
    ASSUME IInv, NEW s \in Slots, NEW r \in Requests, NEW faults, Arrive(s, r, faults)
    PROVE  IInv'
<1>1. memory' \in Ingested(r, faults)
  BY DEF Arrive
<1>2. MemorySound'
  BY <1>1, IngestedSound DEF IInv
<1>3. PICK c \in Compactions(r, memory', faults) :
        LET k == CacheKey(r, c, faults)
            hit == Exact(k, faults)
            near == Similar(r, k, faults)
        IN  \/ /\ hit # NoAnswer
               /\ calls' = [calls EXCEPT ![s] = Done(r, "hit", hit)]
               /\ rows' = RowsAfterExact(k, faults)
            \/ /\ near # NoAnswer
               /\ calls' = [calls EXCEPT ![s] = Done(r, "similar", near)]
               /\ rows' = RowsAfterSimilar(r, k, faults)
            \/ /\ calls' = [calls EXCEPT ![s] = Waiting(r, k, c)]
               /\ rows' = RowsAfterSimilar(r, k, faults)
  BY DEF Arrive, Reply
<1> DEFINE k == CacheKey(r, c, faults)
<1>4. c \subseteq TextsOf(Tenant(r))
  <2>1. memory'[Tenant(r)] \subseteq TextsOf(Tenant(r))
    BY <1>2, TenantOfRequest DEF MemorySound
  <2> QED
    BY <2>1, ContextSound
<1>5. /\ Exact(k, faults) # NoAnswer => Tenant(Exact(k, faults).req) = Tenant(r)
      /\ Similar(r, k, faults) # NoAnswer => Tenant(Similar(r, k, faults).req) = Tenant(r)
  BY ReplayIsOwn DEF IInv
<1>6. k # NoKey => k = Key(r) /\ c = {} /\ ~r.secret /\ ~r.stream
  BY CacheKeySound
<1> HIDE DEF k
<1>7. UNCHANGED <<index, snapshot, answers>>
  BY DEF Arrive
<1>8. \A x \in DOMAIN rows' : x \in DOMAIN rows /\ rows'[x] = rows[x]
  BY <1>3, LookupsOnlyDelete DEF k
<1>9. CacheSound'
  BY <1>7, <1>8, SoundRowsStay DEF IInv
<1>10. PICK call :
          /\ calls' = [calls EXCEPT ![s] = call]
          /\ \/ call = Done(r, "hit", Exact(k, faults)) /\ Exact(k, faults) # NoAnswer
             \/ call = Done(r, "similar", Similar(r, k, faults)) /\ Similar(r, k, faults) # NoAnswer
             \/ call = Waiting(r, k, c)
  BY <1>3 DEF k
<1>11. CallSound(call)
  <2>1. CASE call = Done(r, "hit", Exact(k, faults)) /\ Exact(k, faults) # NoAnswer
    BY <2>1, <1>5 DEF CallSound, Done
  <2>2. CASE call = Done(r, "similar", Similar(r, k, faults)) /\ Similar(r, k, faults) # NoAnswer
    BY <2>2, <1>5 DEF CallSound, Done
  <2>3. CASE call = Waiting(r, k, c)
    BY <2>3, <1>4, <1>6 DEF CallSound, Waiting, Storable
  <2> QED
    BY <1>10, <2>1, <2>2, <2>3
<1>12. CallsSound'
  BY <1>10, <1>11, CallReplaced DEF IInv
<1> QED
  BY <1>2, <1>7, <1>9, <1>12 DEF IInv, EntriesSound, AnswersSound

\* The provider's answer: what it leaves in the stores.
LEMMA ProvideSound ==
    ASSUME IInv, NEW s \in Slots, NEW status, NEW faults, Provide(s, status, faults)
    PROVE  IInv'
<1> DEFINE call == calls[s]
           r == call.req
           a == Answer(r, call.context, status, Wall)
<1>1. call.state = "waiting"
  BY DEF Provide, Free
<1>2. /\ r \in Requests
      /\ Storable(call)
      /\ call.context \subseteq TextsOf(Tenant(r))
  BY <1>1 DEF IInv, CallsSound, CallSound
<1>3. /\ rows' = rows \/ (call.key # NoKey /\ status = "ok"
                            /\ rows' = AfterPut(rows, call.key, a, Wall))
      /\ index' = index \/ (call.key # NoKey /\ index' = Remembered(index, Entry(r, call.key)))
      /\ snapshot' = snapshot
            \/ (call.key # NoKey /\ snapshot' = Persisted(snapshot, Entry(r, call.key)))
      /\ answers' = answers \union {a}
      /\ calls' = [calls EXCEPT ![s] = Done(r, Outcome(call), a)]
      /\ memory' = memory
  BY DEF Provide, Reply
<1>4. a = [req |-> r, context |-> call.context, status |-> status, at |-> Wall]
  BY DEF Answer
<1> HIDE DEF call, r, a
<1>5. CallsSound'
  <2>1. CallSound(Done(r, Outcome(call), a))
    BY <1>4 DEF CallSound, Done
  <2> QED
    BY <1>3, <2>1, CallReplaced DEF IInv
<1>6. CacheSound'
  <2>1. CASE rows' = rows
    BY <1>3, <2>1, SoundRowsStay DEF IInv
  <2>2. CASE call.key # NoKey /\ status = "ok" /\ rows' = AfterPut(rows, call.key, a, Wall)
    <3>1. /\ Key(a.req) = call.key
          /\ a.status = "ok" /\ a.context = {}
          /\ ~a.req.secret /\ ~a.req.stream
      BY <1>2, <1>4, <2>2 DEF Storable, r
    <3>2. \A x \in DOMAIN rows' :
              \/ x \in DOMAIN rows /\ rows'[x] = rows[x]
              \/ x = call.key /\ rows'[x] = [answer |-> a, expires |-> Wall + TTL]
      BY <2>2 DEF AfterPut
    <3>3. a \in answers' /\ answers \subseteq answers' /\ a.at = Wall
      BY <1>3, <1>4
    <3>4. ASSUME NEW x \in DOMAIN rows'
          PROVE  /\ rows'[x].answer \in answers'
                 /\ Key(rows'[x].answer.req) = x
                 /\ rows'[x].answer.status = "ok" /\ rows'[x].answer.context = {}
                 /\ ~rows'[x].answer.req.secret /\ ~rows'[x].answer.req.stream
                 /\ rows'[x].expires = rows'[x].answer.at + TTL
      <4>1. CASE x \in DOMAIN rows /\ rows'[x] = rows[x]
        BY <3>3, <4>1 DEF IInv, CacheSound, RowSound
      <4>2. CASE x = call.key /\ rows'[x] = [answer |-> a, expires |-> Wall + TTL]
        BY <3>1, <3>3, <4>2
      <4> QED
        BY <3>2, <4>1, <4>2
    <3> QED
      BY <3>4 DEF CacheSound, RowSound
  <2> QED
    BY <1>3, <2>1, <2>2
<1>7. EntriesSound'
  <2>1. call.key # NoKey => Entry(r, call.key) \in SoundEntries
    BY <1>2, EntryIsSound DEF Storable, r
  <2> DEFINE e == Entry(r, call.key)
  <2>2. /\ index' = index \/ (e \in SoundEntries /\ index' = Remembered(index, e))
        /\ snapshot' = snapshot \/ (e \in SoundEntries /\ snapshot' = Persisted(snapshot, e))
    BY <1>3, <2>1
  <2> HIDE DEF e
  <2>3. index \in Seq(SoundEntries) /\ snapshot \in Seq(SoundEntries)
    BY DEF IInv, EntriesSound
  <2>4. index' \in Seq(SoundEntries) /\ snapshot' \in Seq(SoundEntries)
    BY <2>2, <2>3, RememberedSound
  <2> QED
    BY <2>4 DEF EntriesSound, SoundEntries, EntrySound
<1>8. MemorySound' /\ AnswersSound'
  BY <1>2, <1>3, <1>4 DEF IInv, MemorySound, AnswersSound
<1> QED
  BY <1>5, <1>6, <1>7, <1>8 DEF IInv

\* The environment: what a restart forgets and what it brings back.
LEMMA EnvironmentSound ==
    ASSUME IInv,
           \/ \E s \in Slots : UpstreamFails(s)
           \/ Tick \/ ClockStep \/ (\E faults \in FaultsIn(Startup) : Restart(faults))
           \/ UNCHANGED vars
    PROVE  IInv'
<1>1. ASSUME NEW s \in Slots, UpstreamFails(s)
      PROVE  IInv'
  <2>1. calls' = [calls EXCEPT ![s] = Done(calls[s].req, "failed", NoAnswer)]
    BY <1>1 DEF UpstreamFails, Reply
  <2>2. CallsSound'
    BY <2>1, EmptyReplySound, CallReplaced DEF IInv
  <2>3. UNCHANGED <<rows, index, snapshot, memory, answers>>
    BY <1>1 DEF UpstreamFails, stores
  <2> QED
    BY <2>2, <2>3 DEF IInv, CacheSound, RowSound, EntriesSound, MemorySound, AnswersSound
<1>2. CASE Tick \/ ClockStep \/ UNCHANGED vars
  <2>1. UNCHANGED <<calls, rows, index, snapshot, memory, answers>>
    BY <1>2 DEF Tick, ClockStep, vars, stores
  <2> QED
    BY <2>1 DEF IInv, CallsSound, CacheSound, RowSound, EntriesSound, MemorySound, AnswersSound
<1>3. ASSUME NEW faults, Restart(faults)
      PROVE  IInv'
  <2>1. CallsSound'
    BY <1>3 DEF Restart, CallsSound, CallSound, Idle
  <2>2. /\ UNCHANGED <<rows, snapshot, answers>>
        /\ index' = << >> \/ index' = Newest(snapshot, MaxEntries)
        /\ memory' = [t \in Tenants |-> {}]
    BY <1>3 DEF Restart
  <2>3. index' \in Seq(SoundEntries)
    BY <2>2, EmptySeq, NewestType DEF IInv, EntriesSound
  <2>4. EntriesSound'
    BY <2>2, <2>3 DEF IInv, EntriesSound, SoundEntries, EntrySound
  <2>5. CacheSound' /\ MemorySound' /\ AnswersSound'
    BY <2>2 DEF IInv, CacheSound, RowSound, MemorySound, AnswersSound
  <2> QED
    BY <2>1, <2>4, <2>5 DEF IInv
<1> QED
  BY <1>1, <1>2, <1>3

THEOREM Invariance == Spec => []IInv
<1>1. IInv /\ [Next]_vars => IInv'
  <2> SUFFICES ASSUME IInv, [Next]_vars PROVE IInv'
    OBVIOUS
  <2>1. ASSUME NEW s \in Slots, NEW r \in Requests, Refuse(s, r) \/ Shed(s, r)
        PROVE  IInv'
    BY <2>1, TurnedAwaySound
  <2>2. ASSUME NEW s \in Slots, NEW r \in Requests,
               NEW faults \in FaultsIn(Inbound), Arrive(s, r, faults)
        PROVE  IInv'
    BY <2>2, ArriveSound
  <2>3. ASSUME NEW s \in Slots, NEW status \in Statuses,
               NEW faults \in FaultsIn(Outbound), Provide(s, status, faults)
        PROVE  IInv'
    BY <2>3, ProvideSound
  <2> QED
    BY <2>1, <2>2, <2>3, EnvironmentSound DEF Next
<1> QED
  BY <1>1, InitSound, PTL DEF Spec

-----------------------------------------------------------------------------
(* The theorems.                                                           *)

\* The exact cache holds only what the provider answered, with a 2xx, to an
\* uncompacted, secret-free request of the row's own key, and lets it expire
\* one TTL after that answer (_maybe_cache_key, _store).
THEOREM CacheAlwaysSound == Spec => []CacheSound
BY Invariance, PTL DEF IInv

\* Every entry of the near-duplicate index and of its snapshot is that of a
\* secret-free request: its key, its tenant, its model and its text.
THEOREM IndexAlwaysSound == Spec => []IndexSound
<1>1. IInv => IndexSound
  <2> SUFFICES ASSUME IInv PROVE IndexSound
    OBVIOUS
  <2>1. \A i \in DOMAIN index : index[i] \in SoundEntries
    BY ElementOfSeq, LenProperties DEF IInv, EntriesSound
  <2>2. \A i \in DOMAIN snapshot : snapshot[i] \in SoundEntries
    BY ElementOfSeq, LenProperties DEF IInv, EntriesSound
  <2> QED
    BY <2>1, <2>2 DEF IndexSound, SoundEntries
<1> QED
  BY <1>1, Invariance, PTL

\* Nothing crosses from one tenant to another: not through the memory, not
\* through the exact cache, not through the index, not by a failure or a
\* restart.
THEOREM TenantsAlwaysIsolated == Spec => []TenantIsolation
<1>1. IInv => TenantIsolation
  BY DEF IInv, TenantIsolation, MemorySound, AnswersSound, CallsSound, CallSound
<1> QED
  BY <1>1, Invariance, PTL

-----------------------------------------------------------------------------
(* Type correctness.  The buckets' times are in the past; the rest of      *)
(* TypeOK is inductive by itself.                                          *)

TypeInv == TypeOK /\ BucketsOK(buckets, now)

\* Eviction keeps the index and its snapshot within the cap.
LEMMA CapKept ==
    ASSUME NEW entries \in Seq(Entries), Len(entries) <= MaxEntries, NEW e \in Entries
    PROVE  /\ Remembered(entries, e) \in Seq(Entries)
           /\ Len(Remembered(entries, e)) <= MaxEntries
           /\ Persisted(entries, e) \in Seq(Entries)
           /\ Len(Persisted(entries, e)) <= MaxEntries
<1> DEFINE longer == Append(entries, e)
<1>1. longer \in Seq(Entries) /\ longer # << >> /\ Len(longer) = Len(entries) + 1
  BY AppendProperties
<1>2. Len(entries) \in Nat /\ MaxEntries \in Nat
  BY IndexAssumption, LenProperties
<1> HIDE DEF longer
<1>3. Tail(longer) \in Seq(Entries) /\ Len(Tail(longer)) = Len(longer) - 1
  BY <1>1, HeadTailProperties
<1>4. /\ Remembered(entries, e) \in Seq(Entries)
      /\ Len(Remembered(entries, e)) <= MaxEntries
  BY <1>1, <1>2, <1>3 DEF Remembered, longer
<1>5. Newest(longer, MaxEntries) \in Seq(Entries) /\ Len(Newest(longer, MaxEntries)) <= MaxEntries
  BY <1>1, NewestType
<1> QED
  BY <1>4, <1>5 DEF Persisted, longer

\* A call that waits is a request with a key, or without one, and a context.
LEMMA WaitingType ==
    ASSUME TypeOK, NEW s \in Slots, ~Free(s)
    PROVE  /\ calls[s].req \in Requests
           /\ calls[s].key \in Keys \union {NoKey}
           /\ calls[s].context \in SUBSET Texts
<1>1. calls[s] \in Calls /\ calls[s].state = "waiting"
  BY DEF TypeOK, Free
<1>2. PICK r \in Requests, k \in Keys \union {NoKey}, c \in SUBSET Texts :
          calls[s] = Waiting(r, k, c)
  BY <1>1 DEF Calls, Idle
<1> QED
  BY <1>2 DEF Waiting

\* What a slot may be left as.
LEMMA ReplyType ==
    ASSUME TypeOK, NEW s \in Slots, NEW r \in Requests,
           NEW outcome \in {"unroutable", "unauthorized", "shed", "hit", "similar",
                            "miss", "off", "stream-bypass", "failed"},
           NEW a \in Answers \union {NoAnswer}, Reply(s, r, outcome, a)
    PROVE  calls' \in [Slots -> Calls]
<1>1. Done(r, outcome, a) \in Calls
  BY DEF Done, Calls
<1> QED
  BY <1>1 DEF TypeOK, Reply

LEMMA RefuseType ==
    ASSUME TypeInv, NEW s \in Slots, NEW r \in Requests, Refuse(s, r)
    PROVE  TypeInv'
<1>1. calls' \in [Slots -> Calls]
  BY ReplyType DEF TypeInv, Refuse
<1> QED
  BY <1>1 DEF TypeInv, TypeOK, Refuse, clocks, stores

LEMMA ShedType ==
    ASSUME TypeInv, NEW s \in Slots, NEW r \in Requests, Shed(s, r)
    PROVE  TypeInv'
<1> DEFINE k == Tenant(r)
           b == AtCheck(buckets, k, now)
<1>1. b \in Bucket /\ b.updated = now
  BY AtCheckType DEF TypeInv, TypeOK
<1>2. buckets' = WithBucket(buckets, k, b) /\ now' = now
  BY DEF Shed, clocks
<1>3. k \in Tenants
  BY DEF Tenants
<1> HIDE DEF b, k
<1>4. BucketsOK(buckets', now') /\ DOMAIN buckets' \subseteq Tenants
  <2>1. BucketsOK(buckets, now) /\ now \in Nat /\ DOMAIN buckets \subseteq Tenants
    BY DEF TypeInv, TypeOK
  <2> DEFINE written == WithBucket(buckets, k, b)
  <2>2. BucketsOK(written, now) /\ DOMAIN written = DOMAIN buckets \union {k}
    BY <1>1, <2>1 DEF BucketsOK, WithBucket
  <2>3. buckets' = written
    BY <1>2
  <2> HIDE DEF written
  <2>4. BucketsOK(buckets', now')
    BY <1>2, <2>2, <2>3 DEF BucketsOK
  <2> QED
    BY <1>3, <2>1, <2>2, <2>3, <2>4
<1>5. calls' \in [Slots -> Calls]
  BY ReplyType DEF TypeInv, Shed
<1> QED
  BY <1>4, <1>5 DEF TypeInv, TypeOK, Shed, clocks, stores, BucketsOK

LEMMA AdmittedType ==
    ASSUME TypeInv, NEW s \in Slots, NEW r \in Requests, Admitted(s, r), now' = now
    PROVE  BucketsOK(buckets', now') /\ DOMAIN buckets' \subseteq Tenants
<1> DEFINE k == Tenant(r)
           b == AtCheck(buckets, k, now)
<1>1. CASE ~RateLimited
  BY <1>1 DEF Admitted, TypeInv, TypeOK
<1>2. CASE RateLimited
  <2>1. Holds(b) /\ buckets' = WithBucket(buckets, k, Consumed(b))
    BY <1>2 DEF Admitted
  <2>2. b \in Bucket /\ b.updated = now
    BY AtCheckType DEF TypeInv, TypeOK
  <2>3. k \in Tenants
    BY DEF Tenants
  <2> HIDE DEF b, k
  <2> DEFINE paid == Consumed(b)
  <2>4. paid \in Bucket /\ paid.updated = now
    BY <2>1, <2>2, ConsumedIsBucket
  <2>5. BucketsOK(buckets, now) /\ now \in Nat /\ DOMAIN buckets \subseteq Tenants
    BY DEF TypeInv, TypeOK
  <2>6. buckets' = WithBucket(buckets, k, paid)
    BY <2>1
  <2> HIDE DEF paid
  <2> DEFINE written == WithBucket(buckets, k, paid)
  <2>7. BucketsOK(written, now) /\ DOMAIN written = DOMAIN buckets \union {k}
    BY <2>4, <2>5 DEF BucketsOK, WithBucket
  <2>8. buckets' = written
    BY <2>6
  <2> HIDE DEF written
  <2>9. BucketsOK(buckets', now')
    BY <2>7, <2>8 DEF BucketsOK
  <2> QED
    BY <2>3, <2>5, <2>7, <2>8, <2>9
<1> QED
  BY <1>1, <1>2

LEMMA ArriveType ==
    ASSUME TypeInv, NEW s \in Slots, NEW r \in Requests, NEW faults, Arrive(s, r, faults)
    PROVE  TypeInv'
<1>1. UNCHANGED <<now, skew, index, snapshot, answers, restarts>>
  BY DEF Arrive, clocks
<1>2. BucketsOK(buckets', now') /\ DOMAIN buckets' \subseteq Tenants
  BY <1>1, AdmittedType DEF Arrive
<1>3. memory' \in [Tenants -> SUBSET Texts]
  <2>1. memory' = memory \/ memory' = [memory EXCEPT ![Tenant(r)] = @ \union {r.text}]
    BY DEF Arrive, Ingested
  <2>2. Tenant(r) \in Tenants /\ r.text \in Texts
    BY DEF Tenants, Texts
  <2> QED
    BY <2>1, <2>2 DEF TypeInv, TypeOK
<1>4. asked' \in [Tenants -> Nat]
  BY DEF Arrive, TypeInv, TypeOK
<1>5. PICK c \in Compactions(r, memory', faults) :
        LET k == CacheKey(r, c, faults)
        IN  /\ \/ Reply(s, r, "hit", Exact(k, faults)) /\ Exact(k, faults) # NoAnswer
               \/ Reply(s, r, "similar", Similar(r, k, faults)) /\ Similar(r, k, faults) # NoAnswer
               \/ calls' = [calls EXCEPT ![s] = Waiting(r, k, c)]
            /\ rows' = RowsAfterExact(k, faults) \/ rows' = RowsAfterSimilar(r, k, faults)
  BY DEF Arrive
<1> DEFINE k == CacheKey(r, c, faults)
<1>6. c \in SUBSET Texts
  <2>1. r.text \in Texts /\ memory'[Tenant(r)] \subseteq Texts
    BY <1>3, TenantOfRequest DEF Texts
  <2>2. c = {} \/ c = {r.text} \/ c \in SUBSET memory'[Tenant(r)]
    BY DEF Compactions
  <2> QED
    BY <2>1, <2>2
<1>7. k \in Keys \union {NoKey}
  BY CacheKeySound DEF Keys
<1>8. rows' = RowsAfterExact(k, faults) \/ rows' = RowsAfterSimilar(r, k, faults)
  BY <1>5
<1> HIDE DEF k
<1>9. /\ \A x \in DOMAIN rows' : x \in DOMAIN rows /\ rows'[x] = rows[x]
      /\ rows' = [x \in DOMAIN rows' |-> rows'[x]]
  <2>1. rows = [x \in DOMAIN rows |-> rows[x]]
    BY DEF TypeInv, TypeOK
  <2>2. CASE rows' = RowsAfterExact(k, faults)
    BY <2>1, <2>2, LookupsOnlyDelete, LookupsAreTables
  <2>3. CASE rows' = RowsAfterSimilar(r, k, faults)
    BY <2>1, <2>3, LookupsOnlyDelete, LookupsAreTables
  <2> QED
    BY <1>8, <2>2, <2>3
<1>10. DOMAIN rows' \subseteq Keys /\ rows' \in [DOMAIN rows' -> Rows]
  BY <1>9 DEF TypeInv, TypeOK
<1>11. Exact(k, faults) # NoAnswer => Exact(k, faults) \in Answers
  BY ExactIsRow DEF TypeInv, TypeOK, Rows
<1>12. Similar(r, k, faults) # NoAnswer => Similar(r, k, faults) \in Answers
  BY SimilarIsRow DEF TypeInv, TypeOK, Rows
<1>13. Waiting(r, k, c) \in Calls
  BY <1>6, <1>7 DEF Calls
<1>14. calls' \in [Slots -> Calls]
  <2>1. CASE Reply(s, r, "hit", Exact(k, faults)) /\ Exact(k, faults) # NoAnswer
    BY <1>11, <2>1, ReplyType DEF TypeInv
  <2>2. CASE Reply(s, r, "similar", Similar(r, k, faults)) /\ Similar(r, k, faults) # NoAnswer
    BY <1>12, <2>2, ReplyType DEF TypeInv
  <2>3. CASE calls' = [calls EXCEPT ![s] = Waiting(r, k, c)]
    BY <1>13, <2>3 DEF TypeInv, TypeOK
  <2> QED
    BY <1>5, <2>1, <2>2, <2>3 DEF k
<1> QED
  BY <1>1, <1>2, <1>3, <1>4, <1>10, <1>14 DEF TypeInv, TypeOK, BucketsOK

LEMMA ProvideType ==
    ASSUME TypeInv, NEW s \in Slots, NEW status \in Statuses, NEW faults,
           Provide(s, status, faults)
    PROVE  TypeInv'
<1> DEFINE call == calls[s]
           r == call.req
           a == Answer(r, call.context, status, Wall)
           e == Entry(r, call.key)
<1>1. r \in Requests /\ call.key \in Keys \union {NoKey} /\ call.context \in SUBSET Texts
  BY WaitingType DEF Provide, TypeInv
<1>2. Wall \in Nat
  <2>1. \A i, j \in Nat : i + j \in Nat
    OBVIOUS
  <2>2. now \in Nat /\ skew \in Nat
    BY DEF TypeInv, TypeOK
  <2> QED
    BY <2>1, <2>2 DEF Wall
<1>3. /\ rows' = rows \/ (call.key # NoKey /\ rows' = AfterPut(rows, call.key, a, Wall))
      /\ index' = index \/ (call.key # NoKey /\ index' = Remembered(index, e))
      /\ snapshot' = snapshot \/ (call.key # NoKey /\ snapshot' = Persisted(snapshot, e))
      /\ answers' = answers \union {a}
      /\ Reply(s, r, Outcome(call), a)
      /\ UNCHANGED <<now, skew, buckets, memory, asked, restarts>>
  BY DEF Provide, clocks
<1>4. a \in Answers
  BY <1>1, <1>2 DEF Answer, Answers
<1>5. call.key # NoKey => e \in Entries
  BY <1>1 DEF Entry, Entries, Texts, Models, Tenants
<1>6. Outcome(call) \in {"miss", "off", "stream-bypass"}
  BY DEF Outcome
<1> HIDE DEF call, r, a, e
<1>7. calls' \in [Slots -> Calls]
  BY <1>1, <1>3, <1>4, <1>6, ReplyType DEF TypeInv
<1>8. DOMAIN rows' \subseteq Keys /\ rows' \in [DOMAIN rows' -> Rows]
  <2>1. CASE rows' = rows
    BY <2>1 DEF TypeInv, TypeOK
  <2>2. CASE call.key # NoKey /\ rows' = AfterPut(rows, call.key, a, Wall)
    <3> DEFINE row == [answer |-> a, expires |-> Wall + TTL]
    <3>1. row \in Rows
      BY <1>2, <1>4, TTLAssumption DEF Rows
    <3> HIDE DEF row
    <3>2. rows' = rows \/ rows' = [x \in DOMAIN rows \union {call.key} |->
                                      IF x = call.key THEN row ELSE rows[x]]
      BY <2>2 DEF AfterPut, row
    <3> QED
      BY <1>1, <2>2, <3>1, <3>2 DEF TypeInv, TypeOK
  <2> QED
    BY <1>3, <2>1, <2>2
<1>9. /\ index' \in Seq(Entries) /\ Len(index') <= MaxEntries
      /\ snapshot' \in Seq(Entries) /\ Len(snapshot') <= MaxEntries
  BY <1>3, <1>5, CapKept DEF TypeInv, TypeOK
<1>10. answers' \subseteq Answers
  BY <1>3, <1>4 DEF TypeInv, TypeOK
<1> QED
  BY <1>3, <1>7, <1>8, <1>9, <1>10 DEF TypeInv, TypeOK

LEMMA FailsType ==
    ASSUME TypeInv, NEW s \in Slots, UpstreamFails(s)
    PROVE  TypeInv'
<1>1. calls[s].req \in Requests /\ Reply(s, calls[s].req, "failed", NoAnswer)
  BY WaitingType DEF UpstreamFails, TypeInv
<1>2. calls' \in [Slots -> Calls]
  BY <1>1, ReplyType DEF TypeInv
<1> QED
  BY <1>2 DEF TypeInv, TypeOK, UpstreamFails, clocks, stores

LEMMA EnvironmentType ==
    ASSUME TypeInv,
           \/ Tick \/ ClockStep \/ (\E faults \in FaultsIn(Startup) : Restart(faults))
           \/ UNCHANGED vars
    PROVE  TypeInv'
<1>1. CASE Tick
  <2>1. now \in Nat /\ now + 1 \in Nat /\ now' = now + 1
    BY <1>1 DEF Tick, TypeInv, TypeOK
  <2>2. BucketsOK(buckets', now')
    BY <1>1, <2>1 DEF Tick, TypeInv, BucketsOK, Bucket
  <2> QED
    BY <1>1, <2>1, <2>2 DEF Tick, TypeInv, TypeOK, stores
<1>2. CASE ClockStep
  BY <1>2, SettingsAssumption DEF ClockStep, TypeInv, TypeOK, stores
<1>3. ASSUME NEW faults, Restart(faults)
      PROVE  TypeInv'
  <2>1. BucketsOK(buckets', now') /\ DOMAIN buckets' \subseteq Tenants
    BY <1>3, NoBucketsOK DEF Restart, clocks, TypeInv, TypeOK
  <2>2. index' = << >> \/ index' = Newest(snapshot, MaxEntries)
    BY <1>3 DEF Restart
  <2>3. Newest(snapshot, MaxEntries) \in Seq(Entries)
        /\ Len(Newest(snapshot, MaxEntries)) <= MaxEntries
    BY NewestType DEF TypeInv, TypeOK
  <2>4. << >> \in Seq(Entries) /\ Len(<< >>) <= MaxEntries
    BY IndexAssumption, EmptySeq
  <2>5. calls' \in [Slots -> Calls]
    BY <1>3 DEF Restart, Calls
  <2> QED
    BY <1>3, <2>1, <2>2, <2>3, <2>4, <2>5
    DEF Restart, clocks, TypeInv, TypeOK, BucketsOK
<1>4. CASE UNCHANGED vars
  BY <1>4 DEF vars, TypeInv, TypeOK
<1> QED
  BY <1>1, <1>2, <1>3, <1>4

\* The engine's state is well formed; the index and its snapshot never
\* outgrow similarity_max_entries, across evictions, failures and restarts.
THEOREM EngineTypeCorrect == Spec => []TypeOK
<1>1. Init => TypeInv
  <2> SUFFICES ASSUME Init PROVE TypeInv
    OBVIOUS
  <2>1. now = 0 /\ skew \in Nat
    BY SettingsAssumption DEF Init
  <2>2. BucketsOK(buckets, now) /\ DOMAIN buckets \subseteq Tenants
    BY <2>1, NoBucketsOK DEF Init
  <2>3. << >> \in Seq(Entries) /\ Len(<< >>) <= MaxEntries
    BY IndexAssumption, EmptySeq
  <2>4. calls \in [Slots -> Calls]
    BY DEF Init, Calls
  <2> QED
    BY <2>1, <2>2, <2>3, <2>4 DEF Init, TypeInv, TypeOK, NoRows, BucketsOK
<1>2. TypeInv /\ [Next]_vars => TypeInv'
  <2> SUFFICES ASSUME TypeInv, [Next]_vars PROVE TypeInv'
    OBVIOUS
  <2>1. ASSUME NEW s \in Slots, NEW r \in Requests, Refuse(s, r)
        PROVE  TypeInv'
    BY <2>1, RefuseType
  <2>2. ASSUME NEW s \in Slots, NEW r \in Requests, Shed(s, r)
        PROVE  TypeInv'
    BY <2>2, ShedType
  <2>3. ASSUME NEW s \in Slots, NEW r \in Requests,
               NEW faults \in FaultsIn(Inbound), Arrive(s, r, faults)
        PROVE  TypeInv'
    BY <2>3, ArriveType
  <2>4. ASSUME NEW s \in Slots, NEW status \in Statuses,
               NEW faults \in FaultsIn(Outbound), Provide(s, status, faults)
        PROVE  TypeInv'
    BY <2>4, ProvideType
  <2>5. ASSUME NEW s \in Slots, UpstreamFails(s)
        PROVE  TypeInv'
    BY <2>5, FailsType
  <2> QED
    BY <2>1, <2>2, <2>3, <2>4, <2>5, EnvironmentType DEF Next
<1>3. TypeInv => TypeOK
  BY DEF TypeInv
<1> QED
  BY <1>1, <1>2, <1>3, PTL DEF Spec
-----------------------------------------------------------------------------
(***************************************************************************)
(* The engine implements the transparent proxy: every step of the engine   *)
(* is a step of module TransparentProxy or leaves it where it was.  The    *)
(* invariant above says what the stores hold; what follows shows that what *)
(* is replayed from them may stand in for the answer.                      *)
(***************************************************************************)

\* The clocks: what is read is a time.
ClocksOK == now \in Nat /\ skew \in Nat

LEMMA ClocksStep == Spec => []ClocksOK
<1>1. Init => ClocksOK
  BY SettingsAssumption DEF Init, ClocksOK
<1>2. ClocksOK /\ [Next]_vars => ClocksOK'
  <2> SUFFICES ASSUME ClocksOK, [Next]_vars PROVE ClocksOK'
    OBVIOUS
  <2>1. ASSUME NEW s \in Slots, NEW r \in Requests, Refuse(s, r) \/ Shed(s, r)
        PROVE  ClocksOK'
    BY <2>1 DEF ClocksOK, Refuse, Shed, clocks
  <2>2. ASSUME NEW s \in Slots, NEW r \in Requests,
               NEW faults \in FaultsIn(Inbound), Arrive(s, r, faults)
        PROVE  ClocksOK'
    BY <2>2 DEF ClocksOK, Arrive, clocks
  <2>3. ASSUME NEW s \in Slots, NEW status \in Statuses,
               NEW faults \in FaultsIn(Outbound), Provide(s, status, faults)
        PROVE  ClocksOK'
    BY <2>3 DEF ClocksOK, Provide, clocks
  <2>4. ASSUME NEW s \in Slots, UpstreamFails(s)
        PROVE  ClocksOK'
    BY <2>4 DEF ClocksOK, UpstreamFails, clocks
  <2>5. CASE Tick
    BY <2>5 DEF ClocksOK, Tick
  <2>6. CASE ClockStep
    BY <2>6, SettingsAssumption DEF ClocksOK, ClockStep
  <2>7. ASSUME NEW faults \in FaultsIn(Startup), Restart(faults)
        PROVE  ClocksOK'
    BY <2>7 DEF ClocksOK, Restart, clocks
  <2>8. CASE UNCHANGED vars
    BY <2>8 DEF ClocksOK, vars
  <2> QED
    BY <2>1, <2>2, <2>3, <2>4, <2>5, <2>6, <2>7, <2>8 DEF Next
<1> QED
  BY <1>1, <1>2, PTL DEF Spec

-----------------------------------------------------------------------------
(* What is replayed may stand in.                                          *)

\* Requests with the same key ask the same model the same thing.
LEMMA KeyTellsText ==
    ASSUME NEW q \in Requests, NEW r \in Requests, Key(q) = Key(r)
    PROVE  q.model = r.model /\ q.text = r.text
<1>1. Key(q).model = Key(r).model /\ Key(q).turns = Key(r).turns
  OBVIOUS
<1>2. q.model = r.model /\ q.turns = r.turns
  BY <1>1 DEF Key
<1> QED
  BY <1>2, RequestAssumption

\* An exact hit.
LEMMA ExactReplayable ==
    ASSUME IInv, NEW r \in Requests, NEW c, NEW faults,
           Exact(CacheKey(r, c, faults), faults) # NoAnswer
    PROVE  LET a == Exact(CacheKey(r, c, faults), faults)
           IN  a \in answers /\ Proxy!Replayable(a, r)
<1> DEFINE k == CacheKey(r, c, faults)
<1>1. k # NoKey
  BY DEF Exact
<1>2. k = Key(r) /\ ~r.secret /\ ~r.stream
  BY <1>1, CacheKeySound
<1> HIDE DEF k
<1> DEFINE a == Exact(k, faults)
<1>3. k \in DOMAIN rows /\ a = rows[k].answer /\ Wall < rows[k].expires
  BY ExactIsRow DEF k
<1>4. /\ a \in answers
      /\ Key(a.req) = k
      /\ a.status = "ok" /\ a.context = {}
      /\ ~a.req.secret /\ ~a.req.stream
      /\ rows[k].expires = a.at + TTL
  BY <1>3 DEF IInv, CacheSound, RowSound
<1> HIDE DEF a
<1>5. a.req \in Requests
  BY <1>4 DEF IInv, AnswersSound
<1>6. MayStandIn(a.req, r)
  BY <1>2, <1>4, <1>5, KeyTellsTenant, KeyTellsText DEF MayStandIn
<1>7. <<a.req, r>> \in StandIns
  BY <1>5, <1>6 DEF StandIns
<1>8. Proxy!Replayable(a, r)
  BY <1>3, <1>4, <1>7 DEF Proxy!Replayable
<1> QED
  BY <1>4, <1>8 DEF a, k

\* A near-duplicate.
LEMMA SimilarReplayable ==
    ASSUME IInv, NEW r \in Requests, NEW c, NEW faults,
           Similar(r, CacheKey(r, c, faults), faults) # NoAnswer
    PROVE  LET a == Similar(r, CacheKey(r, c, faults), faults)
           IN  a \in answers /\ Proxy!Replayable(a, r)
<1> DEFINE k == CacheKey(r, c, faults)
           a == Similar(r, k, faults)
<1>1. Similarity /\ k # NoKey
  BY SimilarIsRow
<1>2. ~r.secret /\ ~r.stream
  BY <1>1, CacheKeySound
<1>3. PICK i \in Candidates(index, r.text, r.model, Tenant(r)) :
             /\ index[i].key \in DOMAIN rows
             /\ a = rows[index[i].key].answer
             /\ Wall < rows[index[i].key].expires
  BY SimilarIsRow
<1> HIDE DEF k, a
<1>4. /\ i \in DOMAIN index
      /\ index[i].tenant = Tenant(r) /\ index[i].model = r.model
      /\ Score[r.text][index[i].vector] >= Threshold
  BY <1>3 DEF Candidates
<1>5. index[i] \in SoundEntries
  BY <1>4, ElementOfSeq, LenProperties DEF IInv, EntriesSound
<1>6. PICK q \in Requests :
         /\ index[i].key = Key(q) /\ index[i].tenant = Tenant(q)
         /\ index[i].model = q.model /\ index[i].vector = q.text
  BY <1>5 DEF SoundEntries, EntrySound
<1>7. /\ a \in answers
      /\ Key(a.req) = Key(q)
      /\ a.status = "ok" /\ a.context = {}
      /\ ~a.req.secret /\ ~a.req.stream
      /\ Wall < a.at + TTL
  BY <1>3, <1>6 DEF IInv, CacheSound, RowSound
<1>8. a.req \in Requests
  BY <1>7 DEF IInv, AnswersSound
<1>9. Tenant(a.req) = Tenant(r) /\ a.req.model = r.model /\ a.req.text = index[i].vector
  BY <1>4, <1>6, <1>7, <1>8, KeyTellsTenant, KeyTellsText
<1>10. Score[r.text][a.req.text] >= Threshold
  BY <1>4, <1>9
<1>11. MayStandIn(a.req, r)
  BY <1>1, <1>2, <1>7, <1>9, <1>10 DEF MayStandIn
<1>12. <<a.req, r>> \in StandIns
  BY <1>8, <1>11 DEF StandIns
<1>13. Proxy!Replayable(a, r)
  BY <1>7, <1>12 DEF Proxy!Replayable
<1> QED
  BY <1>7, <1>13 DEF a, k

-----------------------------------------------------------------------------
(* The steps.                                                              *)

\* The calls as the transparent proxy sees them.
SeenCalls == [s \in Slots |-> Seen(calls[s])]

\* A slot the engine sees free is free.
LEMMA FreeSeen ==
    ASSUME CallsSound, NEW s \in Slots
    PROVE  Free(s) <=> SeenCalls[s].state # "waiting"
BY DEF Free, SeenCalls, Seen, Idle

\* A call that is replaced is seen replaced.
LEMMA ReplacedSeen ==
    ASSUME CallsSound, NEW s \in Slots, NEW call,
           calls' = [calls EXCEPT ![s] = call]
    PROVE  SeenCalls' = [SeenCalls EXCEPT ![s] = Seen(call)]
<1>1. \A u \in Slots : calls'[u] = IF u = s THEN call ELSE calls[u]
  BY DEF CallsSound
<1>2. SeenCalls' = [u \in Slots |-> Seen(calls'[u])]
  BY DEF SeenCalls, Seen
<1>3. SeenCalls = [u \in Slots |-> Seen(calls[u])]
  BY DEF SeenCalls
<1> QED
  BY <1>1, <1>2, <1>3

\* A call that becomes done, as it is seen.
LEMMA DoneSeen ==
    ASSUME CallsSound, NEW s \in Slots, NEW r, NEW outcome, NEW a,
           calls' = [calls EXCEPT ![s] = Done(r, outcome, a)]
    PROVE  SeenCalls' = [SeenCalls EXCEPT ![s] = Proxy!Done(r, How(outcome), a)]
<1> DEFINE call == Done(r, outcome, a)
<1>1. Seen(call) = Proxy!Done(r, How(outcome), a)
  BY DEF Seen, Done, Proxy!Done
<1> HIDE DEF call
<1>2. SeenCalls' = [SeenCalls EXCEPT ![s] = Seen(call)]
  BY ReplacedSeen DEF call
<1> QED
  BY <1>1, <1>2

\* A call that waits, as it is seen.
LEMMA WaitingSeen ==
    ASSUME CallsSound, NEW s \in Slots, NEW r, NEW k, NEW c,
           calls' = [calls EXCEPT ![s] = Waiting(r, k, c)]
    PROVE  SeenCalls' = [SeenCalls EXCEPT ![s] = Proxy!Waiting(r, c)]
<1> DEFINE call == Waiting(r, k, c)
<1>1. Seen(call) = Proxy!Waiting(r, c)
  BY DEF Seen, Waiting, Proxy!Waiting
<1> HIDE DEF call
<1>2. SeenCalls' = [SeenCalls EXCEPT ![s] = Seen(call)]
  BY ReplacedSeen DEF call
<1> QED
  BY <1>1, <1>2

LEMMA TurnedAwayMaps ==
    ASSUME IInv, NEW s \in Slots, NEW r \in Requests, Refuse(s, r) \/ Shed(s, r)
    PROVE  Proxy!Refuse(s, r)
<1>1. PICK outcome \in {"unroutable", "unauthorized", "shed"} :
          calls' = [calls EXCEPT ![s] = Done(r, outcome, NoAnswer)]
  BY DEF Refuse, Shed, Reply
<1>2. Free(s) /\ UNCHANGED <<Wall, answers>>
  BY DEF Refuse, Shed, clocks, Wall
<1>3. How(outcome) = "refused"
  BY DEF How
<1>4. SeenCalls' = [SeenCalls EXCEPT ![s] = Proxy!Done(r, "refused", NoAnswer)]
  BY <1>1, <1>3, DoneSeen DEF IInv
<1>5. SeenCalls[s].state # "waiting"
  BY <1>2, FreeSeen DEF IInv
<1> QED
  BY <1>2, <1>4, <1>5 DEF Proxy!Refuse, Proxy!Free, SeenCalls

LEMMA ArriveMaps ==
    ASSUME IInv, NEW s \in Slots, NEW r \in Requests, NEW faults, Arrive(s, r, faults)
    PROVE  Proxy!Replay(s, r) \/ Proxy!Ask(s, r)
<1>1. PICK c \in Compactions(r, memory', faults) :
        LET k == CacheKey(r, c, faults)
        IN  \/ /\ Exact(k, faults) # NoAnswer
               /\ calls' = [calls EXCEPT ![s] = Done(r, "hit", Exact(k, faults))]
            \/ /\ Similar(r, k, faults) # NoAnswer
               /\ calls' = [calls EXCEPT ![s] = Done(r, "similar", Similar(r, k, faults))]
            \/ calls' = [calls EXCEPT ![s] = Waiting(r, k, c)]
  BY DEF Arrive, Reply
<1> DEFINE k == CacheKey(r, c, faults)
<1>2. Free(s) /\ UNCHANGED <<Wall, answers>>
  BY DEF Arrive, Admitted, clocks, Wall
<1>3. SeenCalls[s].state # "waiting"
  BY <1>2, FreeSeen DEF IInv
<1>4. ASSUME NEW a \in answers, NEW outcome \in {"hit", "similar"}, Proxy!Replayable(a, r),
             calls' = [calls EXCEPT ![s] = Done(r, outcome, a)]
      PROVE  Proxy!Replay(s, r)
  <2>1. SeenCalls' = [SeenCalls EXCEPT ![s] = Proxy!Done(r, "replayed", a)]
    <3>1. How(outcome) = "replayed"
      BY DEF How
    <3> QED
      BY <1>4, <3>1, DoneSeen DEF IInv
  <2> QED
    BY <1>2, <1>3, <1>4, <2>1 DEF Proxy!Replay, Proxy!Free, SeenCalls
<1>5. CASE /\ Exact(k, faults) # NoAnswer
           /\ calls' = [calls EXCEPT ![s] = Done(r, "hit", Exact(k, faults))]
  BY <1>4, <1>5, ExactReplayable
<1>6. CASE /\ Similar(r, k, faults) # NoAnswer
           /\ calls' = [calls EXCEPT ![s] = Done(r, "similar", Similar(r, k, faults))]
  BY <1>4, <1>6, SimilarReplayable
<1>7. CASE calls' = [calls EXCEPT ![s] = Waiting(r, k, c)]
  <2>1. c \in Contexts
    <3>1. memory' \in Ingested(r, faults)
      BY DEF Arrive
    <3>2. MemorySound'
      BY <3>1, IngestedSound DEF IInv
    <3>3. memory'[Tenant(r)] \subseteq TextsOf(Tenant(r))
      BY <3>2, TenantOfRequest DEF MemorySound
    <3>4. c \subseteq TextsOf(Tenant(r))
      BY <3>3, ContextSound
    <3>5. c \in SUBSET Texts
      BY <3>4 DEF TextsOf, Texts
    <3>6. Memory = "off" => c = {}
      BY DEF Compactions
    <3> QED
      BY <3>5, <3>6 DEF Contexts
  <2>2. SeenCalls' = [SeenCalls EXCEPT ![s] = Proxy!Waiting(r, c)]
    BY <1>7, WaitingSeen DEF IInv
  <2> QED
    BY <1>2, <1>3, <2>1, <2>2 DEF Proxy!Ask, Proxy!Free, SeenCalls
<1> QED
  BY <1>1, <1>5, <1>6, <1>7

LEMMA ProvideMaps ==
    ASSUME IInv, NEW s \in Slots, NEW status, NEW faults, Provide(s, status, faults)
    PROVE  Proxy!Provide(s, status)
<1> DEFINE call == calls[s]
           a == Answer(call.req, call.context, status, Wall)
<1>1. call.state = "waiting"
  BY DEF Provide, Free
<1>2. /\ answers' = answers \union {a}
      /\ calls' = [calls EXCEPT ![s] = Done(call.req, Outcome(call), a)]
      /\ UNCHANGED Wall
  BY DEF Provide, Reply, clocks, Wall
<1>3. SeenCalls[s] = [state |-> "waiting", req |-> call.req, context |-> call.context]
  BY <1>1 DEF SeenCalls, Seen
<1>4. How(Outcome(call)) = "answered"
  BY DEF How, Outcome
<1>5. a = [req |-> SeenCalls[s].req, context |-> SeenCalls[s].context,
            status |-> status, at |-> Wall]
  BY <1>3 DEF Answer
<1> HIDE DEF call, a
<1>6. SeenCalls' = [SeenCalls EXCEPT ![s] = Proxy!Done(call.req, "answered", a)]
  BY <1>2, <1>4, DoneSeen DEF IInv
<1>7. /\ SeenCalls[s].state = "waiting"
      /\ SeenCalls' = [SeenCalls EXCEPT ![s] = Proxy!Done(SeenCalls[s].req, "answered", a)]
  BY <1>3, <1>6
<1> QED
  BY <1>2, <1>5, <1>7 DEF Proxy!Provide, Proxy!Free, SeenCalls

LEMMA FailsMaps ==
    ASSUME IInv, NEW s \in Slots, UpstreamFails(s)
    PROVE  Proxy!Fail(s)
<1>1. /\ calls[s].state = "waiting"
      /\ calls' = [calls EXCEPT ![s] = Done(calls[s].req, "failed", NoAnswer)]
      /\ UNCHANGED <<Wall, answers>>
  BY DEF UpstreamFails, Free, Reply, clocks, Wall
<1>2. SeenCalls[s].state = "waiting" /\ SeenCalls[s].req = calls[s].req
  BY <1>1 DEF SeenCalls, Seen
<1>3. SeenCalls' = [SeenCalls EXCEPT ![s] = Proxy!Done(calls[s].req, "failed", NoAnswer)]
  <2>1. How("failed") = "failed"
    BY DEF How
  <2> QED
    BY <1>1, <2>1, DoneSeen DEF IInv
<1> QED
  BY <1>1, <1>2, <1>3 DEF Proxy!Fail, Proxy!Free, SeenCalls

LEMMA RestartMaps ==
    ASSUME NEW faults, Restart(faults)
    PROVE  Proxy!Crash
<1>1. calls' = [s \in Slots |-> Idle] /\ UNCHANGED <<Wall, answers>>
  BY DEF Restart, clocks, Wall
<1>2. SeenCalls' = [s \in Slots |-> Proxy!Idle]
  BY <1>1 DEF SeenCalls, Seen, Idle, Proxy!Idle
<1> QED
  BY <1>1, <1>2 DEF Proxy!Crash, SeenCalls

LEMMA ClockMaps ==
    ASSUME ClocksOK', Tick \/ ClockStep
    PROVE  Proxy!Time
<1>1. UNCHANGED <<calls, answers>>
  BY DEF Tick, ClockStep
<1>2. Wall' \in Nat
  <2>1. now' \in Nat /\ skew' \in Nat
    BY DEF ClocksOK
  <2>2. Wall' = now' + skew'
    BY DEF Wall
  <2>3. \A i, j \in Nat : i + j \in Nat
    OBVIOUS
  <2> QED
    BY <2>1, <2>2, <2>3
<1>3. SeenCalls' = SeenCalls
  BY <1>1 DEF SeenCalls, Seen
<1> QED
  BY <1>1, <1>2, <1>3 DEF Proxy!Time, SeenCalls

\* The engine implements the transparent proxy (handle, prepare_stream): with
\* its cache, its near-duplicates, its memory, the restarts, the clock that
\* jumps and everything that may fail, what a client sees is a refusal, a
\* failure, the provider's answer, or a recent answer that may stand in for it.
THEOREM EngineIsTransparent == Spec => ImplementsTransparent
<1>1. Init => Proxy!Init
  <2> SUFFICES ASSUME Init PROVE Proxy!Init
    OBVIOUS
  <2>1. Wall \in Nat
    BY SettingsAssumption DEF Init, Wall
  <2>2. [s \in Slots |-> Seen(calls[s])] = [s \in Slots |-> Proxy!Idle]
    BY DEF Init, Seen, Idle, Proxy!Idle
  <2> QED
    BY <2>1, <2>2 DEF Init, Proxy!Init
<1>2. IInv /\ ClocksOK' /\ [Next]_vars => [Proxy!Next]_(Proxy!pvars)
  <2> SUFFICES ASSUME IInv, ClocksOK', [Next]_vars
               PROVE  Proxy!Next \/ UNCHANGED Proxy!pvars
    OBVIOUS
  <2>1. ASSUME NEW s \in Slots, NEW r \in Requests, Refuse(s, r) \/ Shed(s, r)
        PROVE  Proxy!Next
    BY <2>1, TurnedAwayMaps DEF Proxy!Next
  <2>2. ASSUME NEW s \in Slots, NEW r \in Requests,
               NEW faults \in FaultsIn(Inbound), Arrive(s, r, faults)
        PROVE  Proxy!Next
    BY <2>2, ArriveMaps DEF Proxy!Next
  <2>3. ASSUME NEW s \in Slots, NEW status \in Statuses,
               NEW faults \in FaultsIn(Outbound), Provide(s, status, faults)
        PROVE  Proxy!Next
    BY <2>3, ProvideMaps DEF Proxy!Next
  <2>4. ASSUME NEW s \in Slots, UpstreamFails(s)
        PROVE  Proxy!Next
    BY <2>4, FailsMaps DEF Proxy!Next
  <2>5. ASSUME NEW faults \in FaultsIn(Startup), Restart(faults)
        PROVE  Proxy!Next
    BY <2>5, RestartMaps DEF Proxy!Next
  <2>6. CASE Tick \/ ClockStep
    BY <2>6, ClockMaps DEF Proxy!Next
  <2>7. CASE UNCHANGED vars
    <3>1. UNCHANGED <<Wall, calls, answers>>
      BY <2>7 DEF vars, Wall
    <3>2. SeenCalls' = SeenCalls
      BY <3>1 DEF SeenCalls, Seen
    <3> QED
      BY <3>1, <3>2 DEF Proxy!pvars, SeenCalls
  <2> QED
    BY <2>1, <2>2, <2>3, <2>4, <2>5, <2>6, <2>7 DEF Next
<1> QED
  BY <1>1, <1>2, Invariance, ClocksStep, PTL DEF Spec, ImplementsTransparent, Proxy!Spec
-----------------------------------------------------------------------------
(***************************************************************************)
(* The rate law at the provider, for every number of tenants, requests and *)
(* slots, every capacity and rate: the engine consults the limiter before  *)
(* every call it makes, streamed or buffered.                              *)
(***************************************************************************)

\* What a check of a tenant's bucket would find now.
Held(t) == AtCheck(buckets, t, now).tokens

\* What has been asked for and what could be asked for next stay within the
\* bursts and the refill so far.
Budgeted(t) == Token * asked[t] + Held(t) <= Capacity * (1 + restarts) + Refill * now

QuotaType ==
    /\ now \in Nat /\ restarts \in Nat
    /\ BucketsOK(buckets, now)
    /\ asked \in [Tenants -> Nat]

QuotaInv == QuotaType /\ (RateLimited => \A t \in Tenants : Budgeted(t))

\* What is held is a natural number, at most the capacity.
LEMMA HeldType ==
    ASSUME QuotaType, NEW t
    PROVE  Held(t) \in 0..Capacity
BY AtCheckType DEF QuotaType, Held, Bucket

\* The products in the account are natural numbers.
LEMMA ProductsType ==
    ASSUME QuotaType, NEW t \in Tenants
    PROVE  /\ Token * asked[t] \in Nat
           /\ Capacity * (1 + restarts) \in Nat
           /\ Refill * now \in Nat
BY BucketAssumption DEF QuotaType

LEMMA QuotaInit == Init => QuotaInv
<1> SUFFICES ASSUME Init PROVE QuotaInv
  OBVIOUS
<1>1. now = 0 /\ restarts = 0 /\ buckets = NoBuckets /\ asked = [t \in Tenants |-> 0]
  BY DEF Init
<1>2. QuotaType
  BY <1>1, NoBucketsOK DEF QuotaType
<1>3. ASSUME NEW t \in Tenants
      PROVE  Budgeted(t)
  <2>1. Held(t) = Capacity
    BY <1>1, NoBucketsOK, AtCheckFresh DEF Held
  <2>2. Token * asked[t] = 0 /\ Capacity * (1 + restarts) = Capacity /\ Refill * now = 0
    BY <1>1, BucketAssumption
  <2> QED
    BY <2>1, <2>2, BucketAssumption DEF Budgeted
<1> QED
  BY <1>2, <1>3 DEF QuotaInv

\* A check that finds no token leaves the account as it was.
LEMMA ShedKeeps ==
    ASSUME QuotaInv, NEW s \in Slots, NEW r \in Requests, Shed(s, r)
    PROVE  QuotaInv'
<1> DEFINE k == Tenant(r)
           b == AtCheck(buckets, k, now)
<1>1. b \in Bucket /\ b.updated = now
  BY AtCheckType DEF QuotaInv, QuotaType
<1>2. /\ buckets' = WithBucket(buckets, k, b)
      /\ UNCHANGED <<now, asked, restarts>>
  BY DEF Shed, clocks
<1>3. b.tokens = Held(k)
  BY DEF Held
<1> HIDE DEF b, k
<1>4. QuotaType'
  BY <1>1, <1>2, WithBucketOK DEF QuotaInv, QuotaType
<1>5. \A t : Held(t)' = Held(t)
  BY <1>1, <1>2, <1>3, WithBucketTokens DEF Held, QuotaInv, QuotaType
<1>6. RateLimited => \A t \in Tenants : Budgeted(t)'
  BY <1>2, <1>5 DEF QuotaInv, Budgeted
<1> QED
  BY <1>4, <1>6 DEF QuotaInv

\* An admitted request pays for the call before it is made.
LEMMA ArriveKeeps ==
    ASSUME QuotaInv, NEW s \in Slots, NEW r \in Requests, NEW faults, Arrive(s, r, faults)
    PROVE  QuotaInv'
<1> DEFINE k == Tenant(r)
           b == AtCheck(buckets, k, now)
<1>1. UNCHANGED <<now, restarts>>
  BY DEF Arrive, clocks
<1>2. asked' = asked \/ asked' = [asked EXCEPT ![k] = @ + 1]
  BY DEF Arrive
<1>3. k \in Tenants
  BY DEF Tenants
<1>4. asked' \in [Tenants -> Nat]
  BY <1>2, <1>3 DEF QuotaInv, QuotaType
<1>5. CASE ~RateLimited
  <2>1. UNCHANGED buckets
    BY <1>5 DEF Arrive, Admitted
  <2> QED
    BY <1>1, <1>4, <1>5, <2>1 DEF QuotaInv, QuotaType
<1>6. CASE RateLimited
  <2>1. Holds(b) /\ buckets' = WithBucket(buckets, k, Consumed(b))
    BY <1>6 DEF Arrive, Admitted
  <2>2. b \in Bucket /\ b.updated = now /\ b.tokens = Held(k)
    BY AtCheckType DEF QuotaInv, QuotaType, Held
  <2> HIDE DEF b, k
  <2> DEFINE paid == Consumed(b)
  <2>3. paid \in Bucket /\ paid.updated = now /\ paid.tokens = Held(k) - Token
    BY <2>1, <2>2, ConsumedIsBucket
  <2>4. buckets' = WithBucket(buckets, k, paid)
    BY <2>1
  <2> HIDE DEF paid
  <2>5. QuotaType'
    BY <1>1, <1>4, <2>3, <2>4, WithBucketOK DEF QuotaInv, QuotaType
  <2>6. Held(k)' = Held(k) - Token /\ \A t : t # k => Held(t)' = Held(t)
    BY <1>1, <2>3, <2>4, WithBucketTokens DEF Held, QuotaInv, QuotaType
  <2>7. ASSUME NEW t \in Tenants
        PROVE  Budgeted(t)'
    <3>1. Token * asked[t] + Held(t) <= Capacity * (1 + restarts) + Refill * now
      BY <1>6 DEF QuotaInv, Budgeted
    <3>2. Held(t) \in Int /\ Held(k) \in Int
      BY HeldType, BucketAssumption DEF QuotaInv
    <3> DEFINE n == asked[t]
               limit == Capacity * (1 + restarts) + Refill * now
    <3>3. n \in Nat /\ limit \in Int /\ Token * n \in Int
      BY ProductsType DEF QuotaInv, QuotaType
    <3>4. Token * (n + 1) = Token * n + Token
      BY <3>3, BucketAssumption
    <3>5. asked'[t] = n \/ (t = k /\ asked'[t] = n + 1)
      BY <1>2, <1>3 DEF QuotaInv, QuotaType
    <3>6. Capacity * (1 + restarts') + Refill * now' = limit
      BY <1>1
    <3>7. Token * n + Held(t) <= limit
      BY <3>1
    <3> HIDE DEF n, limit
    <3>8. Token * asked'[t] = Token * n \/ (t = k /\ Token * asked'[t] = Token * n + Token)
      BY <3>4, <3>5
    <3>9. Held(t)' = Held(t) \/ (t = k /\ Held(t)' = Held(t) - Token)
      BY <2>6
    <3>10. t = k => Held(t)' = Held(t) - Token
      BY <2>6
    <3>11. Token * asked'[t] + Held(t)' <= limit
      BY <3>2, <3>3, <3>7, <3>8, <3>9, <3>10, BucketAssumption
    <3> QED
      BY <3>6, <3>11 DEF Budgeted
  <2> QED
    BY <2>5, <2>7 DEF QuotaInv
<1> QED
  BY <1>5, <1>6

\* Time: a tick refills no more than it adds to the limit.
LEMMA TickKeeps ==
    ASSUME QuotaInv, Tick
    PROVE  QuotaInv'
<1> DEFINE next == now + 1
<1>1. now \in Nat /\ next \in Nat /\ now' = next /\ UNCHANGED <<buckets, asked, restarts>>
  BY DEF Tick, QuotaInv, QuotaType
<1>2. BucketsOK(buckets, now) /\ BucketsOK(buckets, next)
  BY <1>1 DEF QuotaInv, QuotaType, BucketsOK, Bucket
<1>3. \A t : AtCheck(buckets, t, next).tokens <= Held(t) + Refill
  BY <1>1, <1>2, TickGain DEF Held
<1>4. Refill * next = Refill * now + Refill
  BY <1>1, BucketAssumption
<1> HIDE DEF next
<1>5. QuotaType'
  BY <1>1, <1>2 DEF QuotaInv, QuotaType
<1>6. ASSUME RateLimited, NEW t \in Tenants
      PROVE  Budgeted(t)'
  <2>1. Held(t)' = AtCheck(buckets, t, next).tokens
    BY <1>1 DEF Held
  <2>2. Held(t)' <= Held(t) + Refill
    BY <1>3, <2>1
  <2>3. Held(t) \in Int
    BY HeldType, BucketAssumption DEF QuotaInv
  <2>4. Held(t)' \in Int
    BY <1>1, <1>2, <2>1, AtCheckType, BucketAssumption DEF Bucket
  <2>5. Token * asked[t] + Held(t) <= Capacity * (1 + restarts) + Refill * now
    BY <1>6 DEF QuotaInv, Budgeted
  <2>6. Token * asked[t] \in Nat /\ Capacity * (1 + restarts) \in Nat /\ Refill * now \in Nat
    BY ProductsType DEF QuotaInv
  <2>7. Token * asked[t] + Held(t)' <= Capacity * (1 + restarts) + Refill * next
    BY <1>4, <2>2, <2>3, <2>4, <2>5, <2>6, BucketAssumption
  <2> QED
    BY <1>1, <2>7 DEF Budgeted
<1> QED
  BY <1>5, <1>6 DEF QuotaInv

\* A restart grants every tenant one burst more.
LEMMA RestartKeeps ==
    ASSUME QuotaInv, NEW faults, Restart(faults)
    PROVE  QuotaInv'
<1>1. /\ buckets' = NoBuckets /\ restarts' = restarts + 1
      /\ UNCHANGED <<now, asked>>
  BY DEF Restart, clocks
<1>2. QuotaType'
  BY <1>1, NoBucketsOK DEF QuotaInv, QuotaType
<1>3. ASSUME RateLimited, NEW t \in Tenants
      PROVE  Budgeted(t)'
  <2>1. Held(t)' = Capacity
    BY <1>1, NoBucketsOK, AtCheckFresh DEF Held, QuotaInv, QuotaType
  <2>2. Capacity * (1 + restarts') = Capacity * (1 + restarts) + Capacity
    BY <1>1, BucketAssumption DEF QuotaInv, QuotaType
  <2>3. Token * asked[t] + Held(t) <= Capacity * (1 + restarts) + Refill * now
    BY <1>3 DEF QuotaInv, Budgeted
  <2>4. Held(t) \in Nat
    BY HeldType, BucketAssumption DEF QuotaInv
  <2>5. Token * asked[t] \in Nat /\ Capacity * (1 + restarts) \in Nat /\ Refill * now \in Nat
    BY ProductsType DEF QuotaInv
  <2>6. Token * asked[t] + Capacity <= Capacity * (1 + restarts) + Capacity + Refill * now
    BY <2>3, <2>4, <2>5, BucketAssumption
  <2> QED
    BY <1>1, <2>1, <2>2, <2>6 DEF Budgeted
<1> QED
  BY <1>2, <1>3 DEF QuotaInv

\* The calls made for a tenant stay within its bursts, one for every life of
\* the process, and its refill: prepare_stream and handle both check before
\* they call, and no failure, replay or clock jump gives a token back.
THEOREM QuotaAtProvider == Spec => []UpstreamWithinQuota
<1>1. QuotaInv /\ [Next]_vars => QuotaInv'
  <2> SUFFICES ASSUME QuotaInv, [Next]_vars PROVE QuotaInv'
    OBVIOUS
  <2>1. ASSUME NEW s \in Slots, NEW r \in Requests, Shed(s, r)
        PROVE  QuotaInv'
    BY <2>1, ShedKeeps
  <2>2. ASSUME NEW s \in Slots, NEW r \in Requests,
               NEW faults \in FaultsIn(Inbound), Arrive(s, r, faults)
        PROVE  QuotaInv'
    BY <2>2, ArriveKeeps
  <2>3. CASE Tick
    BY <2>3, TickKeeps
  <2>4. ASSUME NEW faults \in FaultsIn(Startup), Restart(faults)
        PROVE  QuotaInv'
    BY <2>4, RestartKeeps
  <2>5. CASE \/ \E s \in Slots, r \in Requests : Refuse(s, r)
             \/ \E s \in Slots, status \in Statuses, faults \in FaultsIn(Outbound) :
                    Provide(s, status, faults)
             \/ \E s \in Slots : UpstreamFails(s)
             \/ ClockStep \/ UNCHANGED vars
    <3>1. UNCHANGED <<now, buckets, asked, restarts>>
      BY <2>5 DEF Refuse, Provide, UpstreamFails, ClockStep, vars, clocks
    <3> QED
      BY <3>1 DEF QuotaInv, QuotaType, Budgeted, Held
  <2> QED
    BY <2>1, <2>2, <2>3, <2>4, <2>5 DEF Next
<1>2. QuotaInv => UpstreamWithinQuota
  <2> SUFFICES ASSUME QuotaInv, RateLimited, NEW t \in Tenants
               PROVE  Token * asked[t] <= Capacity * (1 + restarts) + Refill * now
    BY DEF UpstreamWithinQuota
  <2>1. Token * asked[t] + Held(t) <= Capacity * (1 + restarts) + Refill * now
    BY DEF QuotaInv, Budgeted
  <2>2. Held(t) \in Nat
    BY HeldType, BucketAssumption DEF QuotaInv
  <2>3. Token * asked[t] \in Nat /\ Capacity * (1 + restarts) \in Nat /\ Refill * now \in Nat
    BY ProductsType DEF QuotaInv
  <2> QED
    BY <2>1, <2>2, <2>3
<1> QED
  BY <1>1, <1>2, QuotaInit, PTL DEF Spec
=============================================================================
