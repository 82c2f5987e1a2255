--------------------------- MODULE EncryptedCache ---------------------------
(***************************************************************************)
(* The encrypting decorator of the response cache (parcus.cache.encryption *)
(* and parcus.cache.epoch): bodies are sealed under a data key of their    *)
(* tenant and opened with the keys configured at the time they are read.   *)
(*                                                                         *)
(* get() and put() first ask the provider for the tenant's cipher, then go *)
(* to the inner cache.  The epoch store is a database of its own, so a     *)
(* tenant can be shredded between the two, by a thread or another process. *)
(* Keys are rotated, tenants withheld and encryption switched on and off   *)
(* by restarting with other settings; the rows and the epochs survive.     *)
(*                                                                         *)
(* AES-GCM is modelled by what it guarantees: a blob opens under the key   *)
(* that sealed it and the cache key it was sealed for, and no other.       *)
(*                                                                         *)
(* The wall clock only goes forward here.  The cache judges expiry by the  *)
(* same clock as in ProxyEngine, where ClockStep also sets it back.        *)
(***************************************************************************)
EXTENDS ResponseCache

CONSTANTS
    Tenants,
    Names,        \* a cache key is a tenant's name for a request
    Masters,      \* master keys
    Workers,      \* threads that use the cache
    Provider,     \* "static", "tenant", "kms" or "epoch"
    MayDisable,   \* may the operator switch encryption off and on?
    Accidents,    \* what may happen to the file: "damage", "misplace"
    Anyone,       \* the tenant of the static cipher's key
    Cleartext,    \* in place of a data key: a body that was never sealed
    Damaged,      \* ... : a body no key opens any more
    MaxTime, MaxShreds, MaxRestarts   \* bounds of the instance

ASSUME ProviderAssumption ==
    /\ Provider \in {"static", "tenant", "kms", "epoch"}
    /\ MayDisable \in BOOLEAN
    /\ {MaxTime, MaxShreds, MaxRestarts} \subseteq Nat

VARIABLES
    now,
    rows,       \* the inner cache: sealed blobs
    settings,   \* of this life: encrypted, master, previous, shredded
    kms,        \* the masters the key service unwraps at present
    held,       \* the masters unwrapped in this life; {} before the first use
    memo,       \* the provider's ciphers, by tenant and epoch
    epochs,     \* the epoch store
    ops,        \* the operation each worker is in the middle of
    last,       \* the operation that just returned, if the last step was one
    shreds,     \* history: how often each tenant was shredded
    retired,    \* history: when each master stopped being the current one
    restarts

clocks == <<now, restarts, retired>>
vars == <<now, rows, settings, kms, held, memo, epochs, ops, last, shreds,
          retired, restarts>>

-----------------------------------------------------------------------------
(* Keys and ciphers. *)

Keys == Tenants \X Names
TenantOf(k) == k[1]

Configured == settings.previous \union {settings.master}

\* The data key derived from a master key; a single key is used as it is.
Dek(m, t, e) ==
    [master |-> m, tenant |-> IF Provider = "static" THEN Anyone ELSE t, epoch |-> e]

\* The marks of unsealed and of damaged bodies are no data keys.
ASSUME DekAssumption ==
    \A m \in Masters, t \in Tenants, e \in 0..MaxShreds :
        Dek(m, t, e) \notin {Cleartext, Damaged}

EpochOf(t) == IF Provider = "epoch" THEN epochs[t] ELSE 0

Withheld(t) == Provider \in {"tenant", "kms"} /\ t \in settings.shredded

\* The key service must unwrap every master before the first use.
Available == Provider = "kms" /\ held = {} => Configured \subseteq kms

\* The master keys at hand, once the provider has been asked.
Opening == IF Provider = "kms" /\ held # {} THEN held ELSE Configured

\* Mutant: retired masters are read from the settings and not used.
DerivedFromCurrent(t, e) == [seals |-> Dek(settings.master, t, e),
                             opens |-> {Dek(settings.master, t, e)}]

\* A tenant's cipher seals with the current master's key and opens with any.
Derived(t, e) == [seals |-> Dek(settings.master, t, e),
                  opens |-> {Dek(m, t, e) : m \in Opening}]

\* Mutant: ciphers are remembered by tenant only.
MemoKeyOfTenant(t) == <<t, 0>>

MemoKey(t) == <<t, EpochOf(t)>>

\* for_tenant(): the remembered cipher, else a new one.
CipherFor(t) ==
    IF MemoKey(t) \in DOMAIN memo THEN memo[MemoKey(t)] ELSE Derived(t, EpochOf(t))

Remembering(t) ==
    [x \in DOMAIN memo \union {MemoKey(t)} |-> IF x = MemoKey(t) THEN CipherFor(t) ELSE memo[x]]

\* Without encryption there is no decorator: bodies go in and out as they are.
NoCipher == [seals |-> Cleartext, opens |-> {}]

\* seal(): the blob is bound to the cache key.
Sealed(c, k, v) == [dek |-> c.seals, aad |-> k, value |-> v]

\* Mutant: opening without the additional data.
OpensAnywhere(c, k, blob) == blob.dek \in c.opens

Opens(c, k, blob) == blob.dek \in c.opens /\ blob.aad = k

-----------------------------------------------------------------------------
(* Operations. *)

NoOp == [op |-> "none"]
Done(op, k, era, outcome) == [op |-> op, key |-> k, era |-> era, outcome |-> outcome]
Hit(k, era, v) == [op |-> "get", key |-> k, era |-> era, outcome |-> "hit", value |-> v]

\* The body put() stores, marked for the properties with its key, the shreds
\* that came before it and the time.
Value(k, era) == [key |-> k, era |-> era, at |-> now]

\* The key service fails and the failure leaves get() or put().
Raises(op, k) ==
    /\ settings.encrypted /\ ~Available
    /\ last' = Done(op, k, shreds[TenantOf(k)], "raised")
    /\ UNCHANGED <<rows, settings, kms, held, memo, epochs, ops, shreds, clocks>>

\* The tenant's key is withheld: get() misses, put() stores nothing.
Withhold(op, k) ==
    /\ settings.encrypted /\ Available /\ Withheld(TenantOf(k))
    /\ held' = Opening
    /\ last' = Done(op, k, shreds[TenantOf(k)], IF op = "get" THEN "miss" ELSE "skipped")
    /\ UNCHANGED <<rows, settings, kms, memo, epochs, ops, shreds, clocks>>

\* Mutant: the masters that could be unwrapped are kept, whatever failed.
ResolveSome ==
    /\ Provider = "kms" /\ held = {} => settings.master \in kms
    /\ held' = IF Provider = "kms" /\ held = {} THEN Configured \intersect kms ELSE Opening

\* All masters are unwrapped, once a life.
Resolve == Available /\ held' = Opening

\* The first half: for_tenant().
Begin(w, op, k) ==
    LET t == TenantOf(k) IN
    /\ ops[w] = NoOp
    /\ \/ /\ settings.encrypted /\ ~Withheld(t)
          /\ Resolve
          /\ memo' = Remembering(t)
          /\ ops' = [ops EXCEPT ![w] = [op |-> op, key |-> k, era |-> shreds[t],
                                        cipher |-> CipherFor(t)]]
       \/ /\ ~settings.encrypted
          /\ ops' = [ops EXCEPT ![w] = [op |-> op, key |-> k, era |-> shreds[t],
                                        cipher |-> NoCipher]]
          /\ UNCHANGED <<held, memo>>
    /\ last' = NoOp
    /\ UNCHANGED <<rows, settings, kms, epochs, shreds, clocks>>

\* The second half of get(): the inner get, then open().
FinishGet(w) ==
    LET o == ops[w]
        k == o.key
        blob == rows[k].answer
    IN
    /\ o.op = "get"
    /\ rows' = AfterGet(rows, k, now)
    /\ last' = IF ~Fresh(rows, k, now) THEN Done("get", k, o.era, "miss")
               ELSE IF o.cipher = NoCipher
                    THEN IF blob.dek = Cleartext THEN Hit(k, o.era, blob.value)
                         ELSE Done("get", k, o.era, "garbled")
               ELSE IF Opens(o.cipher, k, blob) THEN Hit(k, o.era, blob.value)
               ELSE Done("get", k, o.era, "miss")
    /\ ops' = [ops EXCEPT ![w] = NoOp]
    /\ UNCHANGED <<settings, kms, held, memo, epochs, shreds, clocks>>

\* The second half of put(): seal(), then the inner put.
FinishPut(w) ==
    LET o == ops[w] IN
    /\ o.op = "put"
    /\ rows' = AfterPut(rows, o.key, Sealed(o.cipher, o.key, Value(o.key, o.era)), now)
    /\ last' = Done("put", o.key, o.era, "done")
    /\ ops' = [ops EXCEPT ![w] = NoOp]
    /\ UNCHANGED <<settings, kms, held, memo, epochs, shreds, clocks>>

-----------------------------------------------------------------------------
(* The operator and the environment. *)

\* Mutant: the row is created at one, then increased like any other.
BumpedTwice(t) == IF epochs[t] = 0 THEN 2 ELSE epochs[t] + 1

\* bump(): a tenant's row of the epoch table is created at one or increased.
Bumped(t) == epochs[t] + 1

Shred(t) ==
    /\ Provider = "epoch" /\ shreds[t] < MaxShreds
    /\ epochs' = [epochs EXCEPT ![t] = Bumped(t)]
    /\ shreds' = [shreds EXCEPT ![t] = @ + 1]
    /\ last' = NoOp
    /\ UNCHANGED <<rows, settings, kms, held, memo, ops, clocks>>

\* The settings of the next life: the master may be replaced, and a retired
\* one is kept until what it sealed last has expired, as ADR 0005 asks.
\* Withheld tenants need encryption and keys per tenant.
NextSettings(s, retiring) ==
    LET retirable == Configured \ {s.master} IN
    /\ s.previous \subseteq retirable
    /\ \A m \in retirable : now < retiring[m] + TTL => m \in s.previous
    /\ s.encrypted \/ MayDisable
    /\ s.shredded # {} => s.encrypted /\ Provider \in {"tenant", "kms"}

Settings == [encrypted : BOOLEAN, master : Masters, previous : SUBSET Masters,
             shredded : SUBSET Tenants]

\* Mutant: the epochs live in memory.
EpochsForgotten == [t \in Tenants |-> 0]

\* What a restart finds in the epoch table.
EpochsKept == epochs

\* The process stops, at any point of its operations, and starts again.
Restart ==
    /\ restarts < MaxRestarts
    /\ \E s \in Settings :
          /\ retired' = IF s.master = settings.master THEN retired
                        ELSE [retired EXCEPT ![settings.master] = now]
          /\ NextSettings(s, retired')
          /\ settings' = s
    /\ held' = {} /\ memo' = [x \in {} |-> NoCipher]
    /\ epochs' = EpochsKept
    /\ ops' = [w \in Workers |-> NoOp]
    /\ last' = NoOp
    /\ restarts' = restarts + 1
    /\ UNCHANGED <<now, rows, kms, shreds>>

\* The key service comes and goes, key by key.
KmsChanges ==
    /\ Provider = "kms"
    /\ kms' \in SUBSET Masters
    /\ last' = NoOp
    /\ UNCHANGED <<rows, settings, held, memo, epochs, ops, shreds, clocks>>

\* A body on disk is damaged, or becomes that of another row.
Damage(k) ==
    /\ "damage" \in Accidents /\ k \in DOMAIN rows
    /\ rows' = [rows EXCEPT ![k].answer.dek = Damaged]
    /\ last' = NoOp
    /\ UNCHANGED <<settings, kms, held, memo, epochs, ops, shreds, clocks>>

Misplace(j, k) ==
    /\ "misplace" \in Accidents /\ {j, k} \subseteq DOMAIN rows
    /\ rows' = [rows EXCEPT ![k].answer = rows[j].answer]
    /\ last' = NoOp
    /\ UNCHANGED <<settings, kms, held, memo, epochs, ops, shreds, clocks>>

\* The wall clock goes forward; it is not set back (see the head).
Tick ==
    /\ now < MaxTime
    /\ now' = now + 1
    /\ last' = NoOp
    /\ UNCHANGED <<rows, settings, kms, held, memo, epochs, ops, shreds,
                   retired, restarts>>

Init ==
    /\ now = 0 /\ rows = NoRows /\ kms = Masters /\ held = {}
    /\ \E m \in Masters :
          settings = [encrypted |-> TRUE, master |-> m, previous |-> {}, shredded |-> {}]
    /\ memo = [x \in {} |-> NoCipher]
    /\ epochs = [t \in Tenants |-> 0]
    /\ ops = [w \in Workers |-> NoOp]
    /\ last = NoOp
    /\ shreds = [t \in Tenants |-> 0]
    /\ retired = [m \in Masters |-> 0]
    /\ restarts = 0

Next ==
    \/ \E op \in {"get", "put"}, k \in Keys :
          \/ Raises(op, k)
          \/ Withhold(op, k)
          \/ \E w \in Workers : Begin(w, op, k)
    \/ \E w \in Workers : FinishGet(w) \/ FinishPut(w)
    \/ \E t \in Tenants : Shred(t)
    \/ \E j, k \in Keys : Damage(k) \/ Misplace(j, k)
    \/ Restart \/ KmsChanges \/ Tick

Spec == Init /\ [][Next]_vars

-----------------------------------------------------------------------------
(* Properties. *)

Deks == [master : Masters, tenant : Tenants \union {Anyone}, epoch : 0..MaxShreds]
Values == [key : Keys, era : 0..MaxShreds, at : Nat]
Blobs == [dek : Deks \union {Cleartext, Damaged}, aad : Keys, value : Values]
Ciphers == [seals : Deks \union {Cleartext}, opens : SUBSET Deks]
Operations == [op : {"get", "put"}, key : Keys, era : 0..MaxShreds, cipher : Ciphers]
Outcomes == [op : {"get", "put"}, key : Keys, era : 0..MaxShreds,
             outcome : {"miss", "skipped", "raised", "garbled", "done"}]
            \union [op : {"get"}, key : Keys, era : 0..MaxShreds, outcome : {"hit"},
                    value : Values]

\* Every variable has its type; a row never lives longer than one TTL, and the
\* masters unwrapped are those configured.
TypeOK ==
    /\ now \in Nat /\ restarts \in Nat
    /\ DOMAIN rows \subseteq Keys
    /\ \A k \in DOMAIN rows : rows[k].answer \in Blobs /\ rows[k].expires \in 0..(now + TTL)
    /\ settings \in Settings
    /\ kms \subseteq Masters /\ held \in {{}, Configured}
    /\ DOMAIN memo \subseteq Tenants \X (0..MaxShreds)
    /\ \A x \in DOMAIN memo : memo[x] \in Ciphers
    /\ epochs \in [Tenants -> 0..MaxShreds] /\ shreds \in [Tenants -> 0..MaxShreds]
    /\ ops \in [Workers -> Operations \union {NoOp}]
    /\ last \in Outcomes \union {NoOp}
    /\ retired \in [Masters -> Nat]

\* Erasure: a read that began after a tenant was shredded never returns a body
\* whose put began before, whatever was in progress when the epoch was bumped,
\* whatever cipher was remembered, across rotations and restarts; and a life in
\* which the tenant is withheld returns nothing of it.
ShredErases ==
    last.op = "get" /\ last.outcome = "hit" /\ settings.encrypted =>
        /\ last.value.era >= last.era
        /\ TenantOf(last.key) \notin settings.shredded

\* What get() returns is a body that was put under that key: never the body of
\* another key, and never bytes nobody put.
ReadsWhatWasPut ==
    last.op = "get" =>
        /\ last.outcome # "garbled"
        /\ last.outcome = "hit" => last.value.key = last.key

\* Rotation loses nothing: for one TTL after a put, and while the body is in its
\* place and intact and the tenant neither shredded since nor withheld, the
\* cipher a get() would use opens it, however often the master was replaced
\* meanwhile and whatever the key service did.
NoLostEntry ==
    \A k \in DOMAIN rows :
        LET blob == rows[k].answer
            t == TenantOf(k)
        IN  /\ settings.encrypted /\ ~Withheld(t)
            /\ now < blob.value.at + TTL
            /\ blob.dek \notin {Cleartext, Damaged} /\ blob.aad = k
            /\ blob.value.era = shreds[t]
            => Opens(CipherFor(t), k, blob)
=============================================================================
