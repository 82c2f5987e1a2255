---------------------------- MODULE ProxyEngine ----------------------------
(***************************************************************************)
(* The request path of parcus.proxy.engine: route, derive the tenant,      *)
(* authorize, rate-limit, ingest into memory and perhaps compact, look the *)
(* request up in the exact cache and the similarity index, else ask the    *)
(* provider, store what it answers, and reply.                             *)
(*                                                                         *)
(* The engine runs on one event loop and awaits only the provider.  So a   *)
(* request is two steps: its arrival, everything up to the await or to an  *)
(* early reply; and the provider's answer, everything after.  The steps of *)
(* the requests in flight interleave in every order.                       *)
(*                                                                         *)
(* The engine modelled has its default null metrics sink and cache_inject  *)
(* off; its compressor rewrites the outgoing text only, from which nothing *)
(* here is computed.                                                       *)
(***************************************************************************)
EXTENDS TokenBucket, ResponseCache, SimilarityIndex, FiniteSets

CONSTANTS
    Requests,          \* the requests clients may send
    Slots,             \* how many may be in progress at once
    Digest,            \* the salted digest of a credential
    Local, Anonymous,  \* tenants: single-tenant mode; no credential recognised
    NoCredential,      \* a header that is absent
    NoModel,           \* a Gemini path without a model
    MultiTenant,       \* multi_tenant
    Allowed,           \* allowed_tenants: empty is open
    RateLimited,       \* whether there is a rate limiter
    CacheEnabled,      \* cache
    Similarity,        \* similarity_cache
    Persist,           \* similarity_persist
    Memory,            \* "off", "ingest", "inject" or "summary"
    Retrieve,          \* memory_retrieve: most snippets injected
    FaultSets,         \* which combinations of components may fail in a step
    Skews,             \* what the wall clock may be ahead of the monotonic one
    MaxTime, MaxRestarts, MaxAsks   \* bounds: time, restarts, calls per tenant

Statuses == {"ok", "error"}   \* 2xx, and the rest

\* The components that may fail while a request arrives, while its answer is
\* handled, and while the process starts.
Inbound == {"memory", "redactor", "get", "lookup", "getSimilar"}
Outbound == {"put", "remember", "persist"}
Startup == {"load"}

FaultsIn(sites) == {faults \cap sites : faults \in FaultSets}

VARIABLES
    now, skew,      \* the monotonic clock; how far the wall clock is ahead
    buckets,        \* the rate limiter's, in memory
    rows,           \* the exact cache, on disk
    index,          \* the similarity index, in memory
    snapshot,       \* ... and its snapshot, on disk
    memory,         \* per tenant: what its graph has ingested, in memory
    calls,          \* per slot: the request in progress or just answered
    \* History variables.
    answers,        \* every answer the provider has given
    asked,          \* per tenant: calls made to the provider
    restarts

vars == <<now, skew, buckets, rows, index, snapshot, memory, calls,
          answers, asked, restarts>>
clocks == <<now, skew>>
stores == <<rows, index, snapshot>>

Wall == now + skew

-----------------------------------------------------------------------------
(***************************************************************************)
(* A request is a record of what the engine looks at:                      *)
(*   xkey, bearer, goog   the credential headers x-api-key, authorization  *)
(*                        and x-goog-api-key, or NoCredential              *)
(*   version              whether it has an anthropic-version header       *)
(*   dialect, parses      what its path says, and whether its body parses  *)
(*   model                from the body; a Gemini model from the path      *)
(*   turns, text, tools   system prompt and messages with their roles, the *)
(*                        same without, the tool schemas                   *)
(*   params               the rest of the body: sampling parameters, ...   *)
(*   secret               its text holds a credential, or matches one of   *)
(*                        the no-cache patterns                            *)
(*   long                 its older turns can be dropped: there are more   *)
(*                        than memory_min_messages, none of them structured*)
(*   stream               it asks for a stream, by path or in its body     *)
(***************************************************************************)

\* derive_tenant: the first recognised credential header, in this order.
\* x-goog-api-key is not one of them.
Tenant(r) ==
    IF ~MultiTenant /\ Allowed = {} THEN Local
    ELSE IF r.xkey # NoCredential THEN Digest[r.xkey]
    ELSE IF r.bearer # NoCredential THEN Digest[r.bearer]
    ELSE Anonymous

Tenants == {Tenant(r) : r \in Requests}
Texts == {r.text : r \in Requests}
Models == {r.model : r \in Requests}

(***************************************************************************)
(* What is assumed of the constants.  A digest is a truncated SHA-256 of   *)
(* the salted credential; that two credentials share one is not modelled.  *)
(* The text of a request is the text of its turns, and a credential is     *)
(* detected in it.                                                         *)
(***************************************************************************)
ASSUME DigestAssumption ==
    /\ \A c, d \in DOMAIN Digest : Digest[c] = Digest[d] => c = d
    /\ \A c \in DOMAIN Digest : Digest[c] # Anonymous

ASSUME SettingsAssumption ==
    /\ MultiTenant \in BOOLEAN
    /\ Skews \subseteq Nat
    /\ {MaxTime, MaxRestarts, MaxAsks, Retrieve} \subseteq Nat

ASSUME RequestAssumption ==
    /\ \A r \in Requests : {r.secret, r.long, r.stream, r.parses} \subseteq BOOLEAN
    /\ \A q, r \in Requests :
          q.turns = r.turns => q.text = r.text /\ q.secret = r.secret

Routable(r) ==
    \/ r.dialect \in {"anthropic", "openai", "gemini"}
    \/ r.version
    \/ \E c \in {r.xkey, r.goog, r.bearer} : c # NoCredential

Authorized(r) == Allowed = {} \/ Tenant(r) \in Allowed

\* _canonicalize: a known dialect and a body it can parse.
Canonical(r) == r.dialect # "unknown" /\ r.parses

\* Mutant: the tenant is left out of the key.
SharedKey(r) == [tenant |-> Local, dialect |-> r.dialect, model |-> r.model,
                 turns |-> r.turns, tools |-> r.tools]

\* compute_key: the body's sampling parameters are not part of it.
Key(r) == [tenant |-> Tenant(r), dialect |-> r.dialect, model |-> r.model,
           turns |-> r.turns, tools |-> r.tools]

\* Mutant: a credential in the text does not suppress caching.
SecretCacheKey(r, context, faults) ==
    IF /\ CacheEnabled /\ ~r.stream /\ Canonical(r) /\ context = {}
       /\ ~(r.dialect = "gemini" /\ r.model = NoModel)
       /\ "redactor" \notin faults
    THEN Key(r) ELSE NoKey

\* _maybe_cache_key, for a request forwarded with the given memory context.
CacheKey(r, context, faults) ==
    IF /\ CacheEnabled
       /\ ~r.stream
       /\ Canonical(r)
       /\ context = {}
       /\ ~(r.dialect = "gemini" /\ r.model = NoModel)
       /\ "redactor" \notin faults
       /\ ~r.secret
    THEN Key(r) ELSE NoKey

-----------------------------------------------------------------------------
(* Memory: the graph of a tenant holds the texts of its requests.          *)

\* _apply_memory: what ingesting may leave when it fails half-way, too.
Ingested(r, faults) ==
    IF Memory = "off" \/ ~Canonical(r) THEN {memory}
    ELSE LET all == [memory EXCEPT ![Tenant(r)] = @ \union {r.text}]
         IN  IF "memory" \in faults THEN {memory, all} ELSE {all}

\* The contexts that may replace the older turns of r; {} is r as it came.
\* Retrieval looks at the memory m that has just ingested r itself.
Compactions(r, m, faults) ==
    IF ~Canonical(r) \/ ~r.long \/ "memory" \in faults THEN {{}}
    ELSE CASE Memory = "inject"  -> {c \in SUBSET m[Tenant(r)] : Cardinality(c) <= Retrieve}
           [] Memory = "summary" -> {{}, {r.text}}
           [] OTHER              -> {{}}

-----------------------------------------------------------------------------
(* The slots.                                                              *)

Idle == [state |-> "idle"]
Waiting(r, k, c) == [state |-> "waiting", req |-> r, key |-> k, context |-> c]
Done(r, outcome, a) == [state |-> "done", req |-> r, outcome |-> outcome, answer |-> a]

Free(s) == calls[s].state # "waiting"

Reply(s, r, outcome, a) == calls' = [calls EXCEPT ![s] = Done(r, outcome, a)]

Answer(r, c, status, t) == [req |-> r, context |-> c, status |-> status, at |-> t]

-----------------------------------------------------------------------------
(* Arrival.                                                                *)

\* 502: no provider to route to.  401: a tenant that is not on the list.
Refuse(s, r) ==
    /\ Free(s)
    /\ \/ ~Routable(r) /\ Reply(s, r, "unroutable", NoAnswer)
       \/ Routable(r) /\ ~Authorized(r) /\ Reply(s, r, "unauthorized", NoAnswer)
    /\ UNCHANGED <<clocks, buckets, stores, memory, answers, asked, restarts>>

\* 429: the tenant's bucket is empty.
Shed(s, r) ==
    LET b == AtCheck(buckets, Tenant(r), now) IN
    /\ Free(s) /\ Routable(r) /\ Authorized(r)
    /\ RateLimited /\ ~Holds(b)
    /\ buckets' = WithBucket(buckets, Tenant(r), b)
    /\ Reply(s, r, "shed", NoAnswer)
    /\ UNCHANGED <<clocks, stores, memory, answers, asked, restarts>>

\* Mutant: streaming requests bypass the rate limiter.
AdmittedStream(s, r) ==
    /\ Free(s) /\ Routable(r) /\ Authorized(r)
    /\ IF RateLimited /\ ~r.stream
       THEN LET b == AtCheck(buckets, Tenant(r), now) IN
            /\ Holds(b)
            /\ buckets' = WithBucket(buckets, Tenant(r), Consumed(b))
       ELSE UNCHANGED buckets

\* The gates every request passes that gets further than that.
Admitted(s, r) ==
    /\ Free(s) /\ Routable(r) /\ Authorized(r)
    /\ IF RateLimited
       THEN LET b == AtCheck(buckets, Tenant(r), now) IN
            /\ Holds(b)
            /\ buckets' = WithBucket(buckets, Tenant(r), Consumed(b))
       ELSE UNCHANGED buckets

\* The exact lookup; a failing read is a miss.
Exact(k, faults) ==
    IF k = NoKey \/ "get" \in faults THEN NoAnswer ELSE Found(rows, k, Wall)
RowsAfterExact(k, faults) ==
    IF k = NoKey \/ "get" \in faults THEN rows ELSE AfterGet(rows, k, Wall)

\* The similarity lookup, and the read of the neighbour's row.
SimilarKey(r, k, faults) ==
    IF k = NoKey \/ ~Similarity \/ {"lookup", "getSimilar"} \cap faults # {} THEN NoKey
    ELSE Neighbour(index, r.text, r.model, Tenant(r))
Similar(r, k, faults) ==
    LET n == SimilarKey(r, k, faults) IN
    IF n = NoKey THEN NoAnswer ELSE Found(RowsAfterExact(k, faults), n, Wall)
RowsAfterSimilar(r, k, faults) ==
    LET n == SimilarKey(r, k, faults)
        before == RowsAfterExact(k, faults)
    IN  IF n = NoKey THEN before ELSE AfterGet(before, n, Wall)

\* An admitted request: replay an exact hit, else a near-duplicate's answer,
\* else ask the provider.
Arrive(s, r, faults) ==
    /\ Admitted(s, r)
    /\ memory' \in Ingested(r, faults)
    /\ \E c \in Compactions(r, memory', faults) :
        LET k == CacheKey(r, c, faults)
            hit == Exact(k, faults)
            near == Similar(r, k, faults)
        IN
        \/ /\ hit # NoAnswer
           /\ Reply(s, r, "hit", hit)
           /\ rows' = RowsAfterExact(k, faults)
           /\ UNCHANGED asked
        \/ /\ hit = NoAnswer /\ near # NoAnswer
           /\ Reply(s, r, "similar", near)
           /\ rows' = RowsAfterSimilar(r, k, faults)
           /\ UNCHANGED asked
        \/ /\ hit = NoAnswer /\ near = NoAnswer
           /\ asked[Tenant(r)] < MaxAsks
           /\ calls' = [calls EXCEPT ![s] = Waiting(r, k, c)]
           /\ rows' = RowsAfterSimilar(r, k, faults)
           /\ asked' = [asked EXCEPT ![Tenant(r)] = @ + 1]
    /\ UNCHANGED <<clocks, index, snapshot, answers, restarts>>

-----------------------------------------------------------------------------
(* The provider's answer.                                                  *)

Outcome(call) ==
    IF call.req.stream THEN "stream-bypass"
    ELSE IF call.key = NoKey THEN "off"
    ELSE "miss"

\* Mutant: the index forgets the model.
EntryOfAnyModel(r, k) ==
    [vector |-> r.text, key |-> k, model |-> NoModel, tenant |-> Tenant(r)]

Entry(r, k) == [vector |-> r.text, key |-> k, model |-> r.model, tenant |-> Tenant(r)]

\* A 2xx answer to a request with a key is stored, and remembered even when
\* the store failed.  Every write is best effort.
Provide(s, status, faults) ==
    /\ ~Free(s)
    /\ LET call == calls[s]
           a == Answer(call.req, call.context, status, Wall)
           keep == call.key # NoKey /\ status = "ok"
           remember == keep /\ Similarity /\ "remember" \notin faults
           e == Entry(call.req, call.key)
       IN
       /\ rows' = IF keep /\ "put" \notin faults
                  THEN AfterPut(rows, call.key, a, Wall) ELSE rows
       /\ index' = IF remember THEN Remembered(index, e) ELSE index
       /\ snapshot' = IF remember /\ Persist /\ "persist" \notin faults
                      THEN Persisted(snapshot, e) ELSE snapshot
       /\ answers' = answers \union {a}
       /\ Reply(s, call.req, Outcome(call), a)
    /\ UNCHANGED <<clocks, buckets, memory, asked, restarts>>

\* The call to the provider raises: a timeout or a broken connection.
UpstreamFails(s) ==
    /\ ~Free(s)
    /\ Reply(s, calls[s].req, "failed", NoAnswer)
    /\ UNCHANGED <<clocks, buckets, stores, memory, answers, asked, restarts>>

-----------------------------------------------------------------------------
(* The environment.                                                        *)

Tick ==
    /\ now < MaxTime
    /\ now' = now + 1
    /\ UNCHANGED <<skew, buckets, stores, memory, calls, answers, asked, restarts>>

\* The wall clock is set, forwards or backwards.
ClockStep ==
    /\ skew' \in Skews \ {skew}
    /\ UNCHANGED <<now, buckets, stores, memory, calls, answers, asked, restarts>>

\* The process dies with the requests in flight and everything in memory;
\* the new one loads the snapshot, if there is one that can be read.
Restart(faults) ==
    /\ restarts < MaxRestarts
    /\ restarts' = restarts + 1
    /\ buckets' = NoBuckets
    /\ index' = IF Persist /\ "load" \notin faults
                 THEN Newest(snapshot, MaxEntries) ELSE << >>
    /\ memory' = [t \in Tenants |-> {}]
    /\ calls' = [s \in Slots |-> Idle]
    /\ UNCHANGED <<clocks, rows, snapshot, answers, asked>>

-----------------------------------------------------------------------------

Init ==
    /\ now = 0
    /\ skew \in Skews
    /\ buckets = NoBuckets
    /\ rows = NoRows
    /\ index = << >>
    /\ snapshot = << >>
    /\ memory = [t \in Tenants |-> {}]
    /\ calls = [s \in Slots |-> Idle]
    /\ answers = {}
    /\ asked = [t \in Tenants |-> 0]
    /\ restarts = 0

Next ==
    \/ \E s \in Slots, r \in Requests :
          \/ Refuse(s, r)
          \/ Shed(s, r)
          \/ \E faults \in FaultsIn(Inbound) : Arrive(s, r, faults)
    \/ \E s \in Slots :
          \/ \E status \in Statuses, faults \in FaultsIn(Outbound) : Provide(s, status, faults)
          \/ UpstreamFails(s)
    \/ Tick
    \/ ClockStep
    \/ \E faults \in FaultsIn(Startup) : Restart(faults)

Spec == Init /\ [][Next]_vars

-----------------------------------------------------------------------------
(***************************************************************************)
(* Properties.                                                             *)
(***************************************************************************)

Keys == {Key(r) : r \in Requests}
Answers == [req : Requests, context : SUBSET Texts, status : Statuses, at : Nat]
Rows == [answer : Answers, expires : Nat]
Entries == [vector : Texts, key : Keys, model : Models, tenant : Tenants]
Calls ==
    {Idle}
    \union {Waiting(r, k, c) : r \in Requests, k \in Keys \union {NoKey}, c \in SUBSET Texts}
    \union [state : {"done"}, req : Requests,
            outcome : {"unroutable", "unauthorized", "shed", "hit", "similar",
                       "miss", "off", "stream-bypass", "failed"},
            answer : Answers \union {NoAnswer}]

TypeOK ==
    /\ now \in Nat /\ skew \in Nat
    /\ DOMAIN buckets \subseteq Tenants /\ buckets \in [DOMAIN buckets -> Bucket]
    /\ DOMAIN rows \subseteq Keys /\ rows \in [DOMAIN rows -> Rows]
    /\ index \in Seq(Entries) /\ Len(index) <= MaxEntries
    /\ snapshot \in Seq(Entries) /\ Len(snapshot) <= MaxEntries
    /\ memory \in [Tenants -> SUBSET Texts]
    /\ calls \in [Slots -> Calls]
    /\ answers \subseteq Answers
    /\ asked \in [Tenants -> Nat]
    /\ restarts \in Nat

\* A row of the cache is what the provider answered, with a 2xx, to an
\* uncompacted and secret-free request of the row's key, and it expires one
\* TTL after that answer: whatever requests overlapped with the one that
\* stored it, whatever failed meanwhile, and however long the process lives.
RowSound(k) ==
    LET a == rows[k].answer IN
    /\ a \in answers
    /\ Key(a.req) = k
    /\ a.status = "ok" /\ a.context = {}
    /\ ~a.req.secret /\ ~a.req.stream
    /\ rows[k].expires = a.at + TTL

CacheSound == \A k \in DOMAIN rows : RowSound(k)

\* An entry of the near-duplicate index, in memory or on disk, speaks for the
\* request whose key it holds: same tenant, same model, the text that was
\* embedded.  And no text with a credential in it is embedded.
EntrySound(e) ==
    \E r \in Requests :
        /\ ~r.secret /\ ~r.stream
        /\ e.key = Key(r) /\ e.tenant = Tenant(r)
        /\ e.model = r.model /\ e.vector = r.text

IndexSound ==
    /\ \A i \in DOMAIN index : EntrySound(index[i])
    /\ \A i \in DOMAIN snapshot : EntrySound(snapshot[i])

\* What crosses from one tenant to another: nothing.  A tenant's memory, the
\* context added to its requests and the answers replayed to it all come from
\* its own requests.
TextsOf(t) == {r.text : r \in {q \in Requests : Tenant(q) = t}}

TenantIsolation ==
    /\ \A t \in Tenants : memory[t] \subseteq TextsOf(t)
    /\ \A a \in answers : a.context \subseteq TextsOf(Tenant(a.req))
    /\ \A s \in Slots :
          /\ calls[s].state = "waiting" =>
                calls[s].context \subseteq TextsOf(Tenant(calls[s].req))
          /\ calls[s].state = "done" /\ calls[s].answer # NoAnswer =>
                Tenant(calls[s].answer.req) = Tenant(calls[s].req)

\* The rate law where it matters, at the provider: the calls made for a tenant
\* stay within its burst (one more for every restart) and its refill, be they
\* streamed or buffered, and whatever the wall clock does.
UpstreamWithinQuota ==
    RateLimited =>
        \A t \in Tenants :
            Token * asked[t] <= Capacity * (1 + restarts) + Refill * now

-----------------------------------------------------------------------------
(* What the engine claims, and its code does not keep to.                  *)

\* engine.py:7: "the proxy never breaks a harness or changes a result to save
\* tokens"; so what it replays is at least an answer in the client's dialect.
ReplayInDialect ==
    \A s \in Slots :
        calls[s].state = "done" /\ calls[s].outcome \in {"hit", "similar"} =>
            calls[s].answer.req.dialect = calls[s].req.dialect

-----------------------------------------------------------------------------
(* The abstraction: a transparent proxy.                                   *)

\* An answer to q may be replayed to r.
MayStandIn(q, r) ==
    /\ Tenant(q) = Tenant(r) /\ q.model = r.model
    /\ ~q.secret /\ ~r.secret /\ ~q.stream /\ ~r.stream
    /\ Key(q) = Key(r) \/ (Similarity /\ Score[r.text][q.text] >= Threshold)

StandIns == {p \in Requests \X Requests : MayStandIn(p[1], p[2])}

\* Without a memory nothing is ever compacted.
Contexts == IF Memory = "off" THEN {{}} ELSE SUBSET Texts

How(outcome) ==
    IF outcome \in {"unroutable", "unauthorized", "shed"} THEN "refused"
    ELSE IF outcome \in {"hit", "similar"} THEN "replayed"
    ELSE IF outcome = "failed" THEN "failed"
    ELSE "answered"

Seen(call) ==
    IF call.state = "idle" THEN Idle
    ELSE IF call.state = "waiting"
    THEN [state |-> "waiting", req |-> call.req, context |-> call.context]
    ELSE [state |-> "done", req |-> call.req, how |-> How(call.outcome),
          answer |-> call.answer]

Proxy ==
    INSTANCE TransparentProxy WITH
        wall <- Wall,
        calls <- [s \in Slots |-> Seen(calls[s])],
        Contexts <- Contexts,
        Interchangeable <- StandIns

\* The engine implements the transparent proxy: the cache, the index, its
\* snapshot, the memory and every failure of theirs change no answer beyond
\* what the contract allows, and no answer is replayed a TTL after it was given.
ImplementsTransparent == Proxy!Spec
=============================================================================
