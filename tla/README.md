# A TLA+ model of parcus

parcus is a local reverse proxy between a harness and an LLM provider. It makes
requests smaller and replays answers it has seen, and it promises to be
transparent: what it cannot improve safely it forwards. This directory holds
TLA+ specifications of its stateful core, the TLC configurations that check
them, and theorems about them proved with TLAPS. Source paths below are relative
to the package, `src/parcus/`, unless they start with `docs/`.

## 1. Inventory

The process is one asyncio event loop. Everything between two `await`s is one
step; the engine awaits only the provider (`proxy/engine.py:395`,
`proxy/app.py:134`), the context-cache registrar only its `create` callable
(`cache/context_cache.py:140`). The stores are called synchronously.

| component | state | operations | hard behaviours | what makes it correct |
|---|---|---|---|---|
| **Request pipeline** `proxy/engine.py`, `app.py`, `upstream.py` | the requests in flight | `handle`, `prepare_stream` | requests of one key overlap across the await; any helper may raise; the provider may never answer; a restart drops what is in flight | every reply is a refusal, a failure, the provider's answer, or a recent answer that may stand in for it |
| **Rate limiter** `quota.py` | a token bucket per tenant, in memory | `check` | long mixes of bursts, denials and idle time; rates below one; restart | the rate law in every window; exact retry hints |
| **Tenancy, authorization** `tenant.py` | none | `derive_tenant`, `is_authorized` | which header makes the tenant | nothing crosses tenants |
| **Exact cache** `cache/sqlite_cache.py`, `key.py`, `policy.py`, `null.py`, `clock.py` | rows with an expiry, on disk | `get` (deletes what it finds expired), `put` | read/write failures, a wall clock that is set, overlapping stores | a row answers its key, is a 2xx, holds no credential, and dies one TTL after it was given |
| **Near-duplicate index** `cache/similarity.py`, `similarity_store.py` | entries in memory, a snapshot on disk | `lookup`, `remember`, `append`, `load` | eviction at the cap, entries whose row is gone, partial failures, restart | an entry speaks for the request whose key it holds; same model, same tenant |
| **Context-cache registrar** `cache/context_cache.py` | handles in memory | `ensure`, `evict_expired` | check before the await, store after it; slow, failing and lost registrations; no scheduler | bounded overshoot of the spend cap, bounded map, no handle outlives its copy |
| **Conversation memory** `memory/*` | a graph per tenant, in memory | `ingest`, `relevant`, `compact_with_memory`, `compact_by_summary` | ingestion that fails half-way; what is dropped and what comes back depends on the moment; tool calls and their results | only the tenant's own texts come back; the window starts with a user's turn and is kept; compacted requests are not cached |
| **Encryption** `cache/encryption.py`, `epoch.py` | ciphers per tenant, epochs on disk | `seal`, `open`, rotation, `bump` | rotation over live rows, shredding, crash between bump and use, a failing key service | a shredded row is never served again |
| **Prompt-cache injection** `cache/strategy.py`, `seen.py` | an LRU set of prefixes with a TTL | `record_and_check`, the gate, `annotate` | eviction at the cap, expiry by a clock that is set back, tenants that share the set, markers of the client | a breakpoint only on a prefix its tenant sent recently, in its place, not on messages of which the client marked one |
| **Compression** `compress/*`, `invariants.py`, `spans.py` | the samplers' counters | the passes, self-checks, token guard, sampling | a pass works on another's output; a shorter text may have more tokens; fall-backs half-way | what was asked is said; never more tokens; every repeat can still be read; the sampled share |
| **Metrics** `obs/sinks.py`, `store.py`, `events.py`, `proxy/usage.py` | totals in memory, rows in SQLite | `record`, `snapshot`, `parse_usage` | turns that record nothing; a restart loses one of two sinks | the sinks agree; what is billed is recorded once |
| **Canonical model, dialects** `model.py`, `proxy/dialects.py` | none | `parse`, `serialize` | structured content is carried verbatim, and marked | what is counted is what is sent, a marker of the proxy's and some fall-backs apart; tool calls keep their results |
| **Token counting** `tokenize.py` | a vocabulary, loaded once | `count` | the vocabulary cannot be loaded | one measure on both sides of a comparison |
| **Settings, CLI** `config/settings.py`, `cli.py` | none | `build_engine` | which parts are wired | constraints on constants |
| Rendering, redaction patterns, embedders, SQLite graph store, offline evaluation | – | – | – | not modelled, section 8 |

Interactions. `ProxyEngine` calls the limiter, then the memory provider, the
compressor (which counts with the tokenizer), the injection gate, the exact cache
and the index before its await; the exact cache, the index and `parse_usage` after
it; the metrics at the end. The index holds keys of the exact cache and nothing
else: a near-duplicate is found in one and read from the other. The snapshot is
written through by the index. The registrar is called by a cache strategy and
talks to the provider itself. All of them are namespaced by tenant.

## 2. Plan

The modules in the order they were written, each on the ones before it.

1. `TokenBucket`, `RateLimiter`, `VirtualSchedule` with their proofs.
2. `ResponseCache`, `SimilarityIndex`, `ProxyEngine`, `TransparentProxy`: the
   request path with every store and every failure, its invariants and the
   refinement, with their proofs.
3. `ContextCache`, the other component with an await.
4. `EncryptedCache` with its proofs: rotation, epochs and shredding over a
   `ResponseCache`, with a bump or a restart between an operation's two halves.
5. `PrefixSeen`, `BreakpointGate` with their proofs: which turns get a
   breakpoint, and which are self-checked.
6. `Transcript`, `Compression`, `Compaction`, `SavingsLedger`: pure functions on
   a request; `Outbound` composes them into a conversation.

7. `CompressionProofs`, `OutboundProofs`: the same pipeline for every setup.

What is left: the cases of section 8.

## 3. Modules

| module | models |
|---|---|
| `TokenBucket` | the arithmetic of `RateLimiter.check` on one bucket, and the dictionary of buckets |
| `RateLimiter` | the limiter as a state machine: `Allow`, `Deny` (the two outcomes of `check`), `Tick`, `Restart` |
| `VirtualSchedule` | abstract: the virtual-scheduling algorithm, one theoretical arrival time per tenant |
| `ResponseCache` | `SqliteCache.get` and `put` as operators on a table |
| `SimilarityIndex` | `SimilarityCache.lookup`/`remember` and the snapshot's `append`/`load`, on sequences |
| `ProxyEngine` | the request path; EXTENDS the three component modules |
| `TransparentProxy` | abstract: what clients see |
| `ContextCache` | `ensure` cut at its await, `evict_expired`, and the provider's copies (external) |
| `EncryptedCache` | the encrypting decorator, its cipher providers and the epoch store; EXTENDS `ResponseCache` |
| `PrefixSeen` | `PrefixSeenSet` as operators on a function from prefixes |
| `BreakpointGate` | the injection gate and the sampler of the self-checks, turn by turn; EXTENDS `PrefixSeen` |
| `Transcript` | bodies, spans, messages; `parse` and `serialize` of three dialects |
| `Compression` | the passes, the chain, the self-checks and the token counts |
| `Compaction` | the memory graph, ingestion, retrieval, summaries, the keep-window |
| `SavingsLedger` | savings events, the totals of `AggregateSink`, the query of `SqliteMetricsSink`, `parse_usage` |
| `Outbound` | a conversation through the engine; EXTENDS the four modules before it |
| `MCRateLimiter`, `MCProxyEngine`, `MCContextCache`, `MCEncryptedCache`, `MCBreakpointGate`, `MCOutbound` | the instances |
| `TokenBucketProofs`, `RateLimiterProofs`, `ProxyEngineProofs`, `EncryptedCacheProofs`, `BreakpointGateProofs`, `ContextCacheProofs`, `OutboundProofs` | the theorems |
| `CompressionProofs` | lemmas about joins of sequences, texts and their words, the passes, their self-checks, the memory and the ledger, on which the theorems of `OutboundProofs` rest |

**`RateLimiter`.** `buckets` is `_buckets`: a function whose domain is the keys
checked so far. The code counts in floats; here tokens are integers in a unit in
which the refill of a tick is whole, so `Token` units are one request
(`PerMinute` derives the three numbers from a rate and a burst as
`RateLimit.per_minute` does). `from`, `used`, `restarts` and `promise` are
history: an observation window opened at any time, and the hints given out.

**`ProxyEngine`.** A request is a record of what the engine looks at; a slot is
a client connection. A request is two steps:

* `Refuse` (502, 401), `Shed` (429), or `Arrive`: admission, ingestion,
  compaction, the exact lookup, the similarity lookup with the read of its row,
  and either the replay or the call to the provider;
* `Provide`: the answer arrives, with any status; a 2xx is stored under the key
  computed before the await, and remembered; or `UpstreamFails`.

`Arrive` and `Provide` take a set of components that fail in that step, from
`FaultSets`; each is treated as its `try`/`suppress` treats it. Streamed requests
go through `prepare_stream`, which repeats the gates and skips the cache: the
model's `CacheKey` is `NoKey` for them. `Tick` moves the monotonic clock (the
limiter's), `ClockStep` sets the wall clock (the caches'). `Restart` loses
`buckets`, `index`, `memory` and `calls`, keeps `rows` and `snapshot`, and loads
the index from the snapshot unless that fails. Vectors are the text they embed
and cosine is the table `Score`; a credential's digest is the function `Digest`;
the SHA-256 key is the record it hashes; the redactor and the no-cache patterns
are the flag `secret`; a memory context is the set of texts it came from.

**`ContextCache`.** `Reuse`, `Decline` and `Request` are `ensure` up to its
await, with the prune and the removal of a stale handle inside each; `Store` and
`CreateFails` are what follows it, both outcomes of the `try`. `Register` is
external: the provider makes the copy at some moment of the await, and the answer
may still be lost. Its clock is assumed not to be set back.

**`EncryptedCache`.** `get` and `put` are cut in two: `Begin` asks the provider
for the tenant's cipher (`for_tenant`), `FinishGet` and `FinishPut` go to the
inner cache. The event loop runs both halves at once, but the epoch store is a
database another process bumps (`Shred`), and the classes are written for
threads. `Provider` chooses the static, per-tenant, KMS or epoch provider; a data
key is the record it is derived from. `Raises` and `Withhold` are the early ends:
the key service fails, or the tenant is listed as shredded. `Restart` may change
the settings: a new master, retired masters dropped one TTL after they were
replaced (`NextSettings`, the procedure of ADR 0005), withheld tenants, encryption
off. It keeps the rows and the epochs. `Damage` and `Misplace` are accidents of
the file (external). `shreds`, `retired`, `last` and the mark in a stored value
are history. The wall clock (`Tick`) only goes forward in this module: the cache
judges expiry by the clock that `ClockStep` of `ProxyEngine` also sets back, and
with a clock set back a row may outlive what `TypeOK` and `NextSettings` count on.

**`BreakpointGate`.** One step per turn (`Arrive`): `_inject_cache_breakpoint` and
`VerifySampler.should_verify` run without an await. `seen` is `_seen`; the order of
the `OrderedDict` is the turn of a key's last insertion. A request is what the gate
looks at, its prefix a value. `sightings` is history. The clock is a wall clock and
may be set back.

**`Transcript`.** A text is a sequence of tokens: blanks, line ends, words, and
fenced blocks, one token each. That is what `classify_spans`, `split` and `rstrip`
tell apart. Two words that touch read as one (`Words` in `Compression`), so losing a
separation is visible. A structured message (`raw`) is carried as it is on the wire, and
its text is a view of its JSON (`ItemJson`: role, types, ids, markers, line ends
escaped), as `Message.text` is; so a message has other tokens once it is a list of
blocks or marked. Tools are the text of their JSON, where a client's marker is the
token of its key.

**`Compression`.** Each pass is a function from a request to a request and its
statistics. `RewrittenSpans`, `RewrittenText`, `RewrittenBlock` are the shape that
lossless, filler and learned share; the self-checks are their own code
(`removed_only_allowed` as the one-pass scan it is). `Bpe` and `Chars` are
parameters: an instance gives an encoding in which, as in real ones, removing
white space may cost a token.

**`Compaction`.** A graph is a sequence of nodes, one per kind and text, and a
sequence of edges. Ingestion stops at a text that has no UTF-8 (`Unencodable`), as
`node_id` does, and keeps what it has added. Scores are compared as fractions.

**`Outbound`.** The client sends its whole conversation with each turn. `Forward` is
`_handle` (or `prepare_stream`) up to the provider: `Prepared` composes parsing,
`WithMemory`, the chain, the token guard, injection and serialization, with the
fall-backs of each. `FromCache` is a turn that is replayed; that the caches may
also have nothing for it is a choice here, and decided in `ProxyEngine`. `Answer`,
`Refuse` and `Fail` end a turn; `handle` records its event unless it was streamed or
raised. `log` is what `LoggingSink` and the SQLite sink are given, `totals` an
`AggregateSink` beside them in a `MultiSink` (the command line wires the other two;
`life` says where the rows of this process begin). A setup is a configuration with
the conversations to be had under it.

Operators named in a comment `Mutant:` are not part of the model: they are
plausible mistakes in the definition that follows them, and each property is
known to be violated by one.

## 4. Runs

`CHECK_DEADLOCK FALSE` stands in the engine's configurations because their
bounds on calls and time let the system stop, and in `Outbound`'s because a client
may have no more to say; the other runs check deadlock (limiter, registrar, gate and
encrypting cache can always take a step). Slots and callers are
symmetric, except in `ProxyQuota`.

| run | instance | shows |
|---|---|---|
| `RateLimiter` | 2 tenants, 2 requests a minute of 3 ticks, 6 ticks, a restart | `RateLaw` in every window, exact hints `RetryHonoured` and `RetryNotEarly`, and the refinement `ImplementsSchedule`. A bucket fills in 3 ticks, so every mix of burst, idle period and cap occurs |
| `ProxyStores` | 2 slots; a plain request, a near-duplicate, an unrelated one and a secret one; an index of one entry, so eviction is at the cap; each store, the redactor and the load fail in turn; a restart; the wall clock jumps by the TTL | `CacheSound`, `IndexSound`, `ImplementsTransparent`: two requests of one key overlap, expire, are replaced and answer for each other |
| `ProxyTenants` | 2 slots; 2 tenants with equal texts, an unlisted third; memory injected and failing half-way | `TenantIsolation` |
| `ProxyQuota` | unroutable, unparseable, streamed and compacted requests; everything may fail at once; a burst of one request; a restart | `TypeOK` (with both caps) and `UpstreamWithinQuota`: what reaches the provider keeps to the rate law |
| `ProxyDialect` | two requests | violation, section 7 |
| `ContextCache` | 2 callers, 3 prefixes of 2 credentials, cap 1, TTL 1 against the provider's 2, a restart | `CapSlack`, `MapBounded`, `LiveHandlesBacked`, `OwnCopy` |
| `EncryptedEpoch` | epoch provider, 2 keys of a tenant, 2 masters, a shred, 2 restarts (a master is replaced, retired, dropped, and may return), damaged and exchanged bodies, TTL 1 | `TypeOK`, `ShredErases`, `ReadsWhatWasPut`, `NoLostEntry` |
| `EncryptedKms` | KMS provider, 2 tenants withheld in some lives, each key of the service available or not, 2 restarts, TTL 2 | `NoLostEntry` |
| `EncryptedToggle` | one key; static provider | violation, section 7 |
| `BreakpointGate` | 2 tenants with one prefix, 3 prefixes, a cap of 2, TTL 1, the clock set anywhere in 0..2, 4 sightings, 5 calls at a share of 2/3, a restart, and a request that fails each condition of the gate | `TypeOK`, `SeenIsNewest`, `VerdictsRight`, `SampleShare` |
| `Outbound` | 9 setups, 3 dialects, conversations of 7 messages in 4 turns, a restart; code in prose, repeats, tool calls and their results, markers of the client on messages and on tools, bodies that are not read, a text and tools that cannot be encoded, a missing reducer and vocabulary | the 12 properties below |
| `OutboundInline` | code within a line | violation, section 7 |

What `Outbound` shows: the request that is forwarded says what was asked
(`SaysWhatWasAsked`), what dedup leaves out is still there (`DedupRecoverable`),
compaction keeps its window (`WindowValid`) and no tool call loses its result
(`ToolPairing`); the statistics add up and, compaction apart,
never show an increase (`Accounts`), are of what is sent (`CountsWhatIsSent`, an added
marker and an original in place of a compacted request apart) and never show a failed
self-check (`AlwaysHealthy`); markers are placed right (`BreakpointPlaced`)
and the prefix stays the one the provider has cached (`PrefixStable`, where elision
and compaction are off); both sinks agree after a restart (`SinksAgree`) and what
providers charged is what events say (`BilledOnce`). Four turns are enough for a
request to be compacted, for its repeat to be dropped, elided or found in the
memory, and for the turn after it to be compared with it: elision, compaction of
both kinds, dedup within a compacted request, a discarded compression, a request
that goes out as it came, and every mishap occur.

Why the bounds suffice. The hazards are between two actors: two requests of one
key, two of different tenants, a request and a restart, two callers of
`ensure`, a shred between the two halves of a read. Two slots, two asks per
tenant, one restart, a TTL as long as one jump
of the clock and an index of one entry reach each of them, and every action and
disjunct of the next-state relations is taken by some passing run. Each run
offers the requests and switches on the parts that its properties are about; what
holds for every value of the constants is in section 6.

## 5. Fairness

None is assumed, and no liveness property is stated. What could be waited for is the
provider's answer: `handle` awaits the whole of it, and the timeout of the HTTP client
(`proxy/upstream.py:54`: 300 s to read, 10 s to connect) is for each read, so a provider
that keeps sending a little is waited for without end. Weak fairness of `UpstreamFails`
would be more than the code gives. Everything else in the engine runs to its end within
a step, and every safety property holds whenever, and if ever, an answer comes.

## 6. What is proved

For every value of the constants, under the assumptions the modules name:
`BucketAssumption` (positive capacity and price, a natural refill),
`TTLAssumption`, `IndexAssumption`, `SettingsAssumption`, `RequestAssumption`
(a request's text and its secrecy are functions of its turns, since it is the
text of the turns that is embedded and searched).

* `TypeCorrect`, `RateLawHolds`, `RetryAlwaysHonoured`, `RetryNeverEarly`,
  `LimiterImplementsSchedule` (`RateLimiterProofs`). The rate law is not
  inductive: a full bucket could be spent next. `Account` adds the tokens a bucket would hold *now*, lazily
  refilled: granted plus held never exceeds burst plus refill. A tick adds at
  most one refill to what is held; a grant moves a token from held to granted.
  The hints rest on `PromiseInv`: an outstanding hint is the one the untouched
  bucket still calls for. `RetryHintExact` needs a capacity of at least one
  token and a positive rate (see section 7). The refinement maps a bucket to
  the instant it will be full.
* `CacheAlwaysSound`, `IndexAlwaysSound`, `TenantsAlwaysIsolated`
  (`ProxyEngineProofs`), from one inductive invariant `IInv`. A row is sound
  because the waiting request that leaves it is (`Storable`: its key is its own,
  it was forwarded as it came, holds no credential); so the invariant constrains
  the requests *between* the two steps. A replay is the tenant's own because the
  key contains the tenant and rows answer their key; for a near-duplicate,
  because an entry's tenant is that of its key. Texts come back to their tenant
  because the memory and every waiting context hold only its own.
* `EngineTypeCorrect` (`ProxyEngineProofs`), with the clause that the index and
  its snapshot keep to their cap (`CapKept`: eviction after every write).
  It is inductive once the buckets' times are known to be in the past.
* `EngineIsTransparent` (`ProxyEngineProofs`): `Spec => Proxy!Spec`. Every
  step maps to one of `TransparentProxy` under `Seen`, which hides keys, index,
  rows, memory and clocks. The replay is justified from `IInv` by
  `ExactReplayable` and `SimilarReplayable`: equal keys mean equal model and
  text, so the score of an index entry is that of the request whose answer is
  replayed.
* `QuotaAtProvider` (`ProxyEngineProofs`): the rate law holds for the calls that
  reach the provider, from the same accounting as the limiter's and the lemmas
  of `TokenBucketProofs`.

* `ErasureHolds`, `IntegrityHolds`, `RotationLosesNothing`
  (`EncryptedCacheProofs`), for every provider and number of tenants, masters and
  workers. Assumed: `ProviderAssumption`, and `DekAssumption` (the marks of
  unsealed and damaged bodies are no data keys). `IInv` says that every blob,
  every remembered cipher and every operation in progress carries the key of the
  era in which it began, and that the epoch store counts the shreds; so a key that
  opens a blob is of the blob's era. The clause of `ShredErases` on withheld
  tenants is met by no state of `EncryptedEpoch`, whose provider withholds none; it is
  this theorem that shows it. Integrity needs that encryption is never
  switched off (finding 2). Rotation adds `KeepInv`: the master of a fresh row is
  configured, and one that was replaced was replaced no earlier than a TTL before
  the row expires. `KeepInv` is about bodies and not rows, so it survives
  the accidents of the file: a body that lies under another's row keeps the age
  of its own put. `TypeCorrect` says that no row outlives one TTL.

* `TypeCorrect`, `SeenAlwaysNewest`, `VerdictsAlwaysRight`, `ShareKept`
  (`BreakpointGateProofs`), for every cap, TTL, rate and finite set of requests. The
  invariant is `SeenIsNewest` with the types: an entry's place is the turn of its
  key's latest sighting, so counting the entries inserted later counts the keys
  sighted since, and what eviction pops is what has a cap of others since. The
  verdicts follow, one sighting at a time. The sampler's bounds are inductive in
  integers.

* `TypeCorrect`, `CapSlackHolds`, `MapAlwaysBounded`, `LiveHandlesAlwaysBacked`,
  `CopiesAlwaysOwn` (`ContextCacheProofs`), for every cap, prune factor, lifetime
  (`RegistrarAssumption`: that of a handle is no longer than the provider's) and finite
  set of callers. The two bounds are inductive because they count the handles and
  the calls in the await together: a request adds a call and no handle, a store
  turns one into the other. `Backed` extends `LiveHandlesBacked` to calls: a call
  whose copy was made, at its request or later, holds a copy that outlives the
  handle it is about to store.

* `TypeCorrect`, `SaysWhatWasAskedHolds`, `DedupRecoverableHolds`, `WindowValidHolds`,
  `ToolPairingHolds`, `BreakpointPlacedHolds`, `AccountsHolds`, `CountsWhatIsSentHolds`,
  `PrefixStableHolds`, `SinksAgreeHolds`, `BilledOnceHolds`, `AlwaysHealthyHolds`,
  `WordsStayWords` (`OutboundProofs`), for every set of setups, every text, conversation,
  tokenizer and number of turns. Assumed: `TokenAssumption`, `TextAssumption`, `HeaderAssumption`, `UsageAssumption`,
  `SetupAssumption`, `BoundAssumption`: the types of what a setup
  holds, and that the values for "nothing" and the program's own texts are what they
  look like. `AccountsHolds` and `SinksAgreeHolds` also have `CountsNatural` as a
  hypothesis: a tokenizer and `len` return natural numbers.

  The argument has three layers. *Data.* Each pass is shown to keep a relation
  between what it is given and what it returns: `RequestAlike` for all but dedup
  (same messages and ids, texts equal but for droppable words, payloads the same or the
  stub), `Deduped` for dedup (each span itself, or the marker after an earlier copy),
  `Windowed` for compaction, `Agree` for two requests with one start. The relations
  compose along the chain (`CompressedIs`, `CompressedAgrees`), and `Delivers` carries
  them through injection and serialization. *The turn.* `PreparedSends`: what
  `Prepared` sends is the original, or a delivery. What goes out
  reads back as the request that was counted (`ReadsBack`) where no marker was added; a
  compacted request whose tools cannot be encoded is replaced by the original, and then
  the theorems on the window, on repeats and on the count claim nothing. *The system.* `IInv` (types, a sound
  graph, a log of events a setup can have) is inductive (`StepIs`); with it `TurnSent`
  (the turn that is with the provider was prepared from what was asked) and
  `LastSent` (so was the one before) are, though no property above is by itself: each
  is a consequence of how a turn was prepared, which the state no longer shows.
  `SinksAgree` and `BilledOnce` are inductive along the log: `SnapshotAppend` says that
  the query of one row more is the fold of one event more, group by group.

  The prover's induction theorems cannot be used (their parameter is an operator).
  Where a recursive function is read for every length, as in `FlattenIs` (the join of a
  sequence of sequences), `SpansSayText` (the pieces of a text are the text) or
  `IngestedSound` (ingestion, turn by turn), the lemma states that a *set* is all of
  `Nat`, or of `Seq(S)`: `NatSetInduction` and `SeqSetInduction`, which rest on
  the library's fact that the subsets of a finite set are well founded.

  *The self-checks.* `AlwaysHealthyHolds` has `PromptsSetCodeApart` as a hypothesis:
  fenced code in the system prompts has lines of its own. `MCOutbound` assumes it of its
  setups, so TLC evaluates it. Without it the property is false, as TLC finds once a
  prompt with code within a line is added to them: a pass strips the space before the
  code, and the check, which reads the prompt as one text, sees two words become one
  (finding 3). Messages need no such hypothesis, as they are checked span by span.
  `WordsStayWords` is what is left of the promise that finding 3 refutes: with no pass
  that drops words, and nothing compacted, every text whose code has lines of its own is
  forwarded word by word, or as a repeat that is marked. It restricts the texts, not the
  setups.

  Both rest on what the passes make of the words of a text. `Words` is a scan, so
  `WordsAppend` says what one token more does to it, and `KeptWords` follows the scans of
  a text and of what is kept of it side by side: leaving out a blank that does not part
  two words changes none, and leaving out a filler that is a word by itself removes that
  word. `Pruned(a, b, A)` says that `b` is `a` without some words of `A`. It holds of each
  piece of prose (`ProseKept`), and joins over the pieces (`CarriedSpans`), because
  where prose meets code both sides of the line end survive (`NormaliseEdges`,
  `FilterEdges`), so that words never run together there (`WordsConcat`). A text that was
  rewritten has its code apart again, so the next pass finds what it needs (`TextKept`).
  `PrunedAllowed` says that the program's one pass over the two texts accepts every
  pruning: its place in the output is never behind what was kept so far, and ahead of it
  by fillers only.

Every property that a passing run checks is also proved.

## 7. Where the code and its documents part

Each of these is a run that TLC refutes.

1. `ProxyDialect`: the index compares model and tenant, not dialect
   (`cache/similarity.py:115`), so an answer in another dialect's format can be
   replayed; `proxy/engine.py:6-7` promises never to break a harness.
2. `EncryptedToggle`: after a restart with encryption off, `_maybe_encrypt`
   (`cli.py:209`) puts nothing over the file, and the sealed bodies in it are
   served as responses until they expire; `cache/encryption.py:17-18` says
   "never an error or garbage served".
3. `OutboundInline`: `normalise_whitespace` (`compress/lossless.py:48`) strips the end
   of a span also where a code block follows on the same line, and the last word
   before it is joined to it; lines 39-40 say that a span is not trimmed because
   that "would merge prose into an adjacent code block and lose its separation".
   In a system prompt the pass then fails its own self-check. Code that has lines of
   its own does neither (`WordsStayWords`, `AlwaysHealthyHolds`).

Noticed while modelling, without a run of their own:

* `x-goog-api-key` is no credential of `derive_tenant` (`tenant.py:28`), so all
  clients that use it are one anonymous tenant; line 48 says "iff they carry the
  same credential".
* Overlapping callers register more live copies than the spend cap
  (`cache/context_cache.py:138`, against line 87). `CapSlack` says by how many the
  handles can exceed it.
* With a rate below one a minute and no burst, `RateLimit.per_minute`
  (`quota.py:46`) makes a bucket that never holds a whole token: every check is
  denied, with a hint the docstring (`quota.py:87`) calls the time a token
  accrues. This is why `RetryHintExact` assumes a capacity of one token.
* The exact key (`cache/key.py:35`) leaves out sampling parameters, and Gemini's
  `cachedContent` and `system_instruction`; `docs/faq.md:98` says "byte-identical".
  `Key` leaves them out too.
* A withheld tenant's `get` returns before the inner cache
  (`cache/encryption.py:347`), which deletes expired rows only when they are
  read, so its rows stay in the file; line 139 says the bodies "age out by TTL".
* `put` asks the cipher provider outside its `try` (`cache/encryption.py:361`);
  line 360 says "never raises". The engine catches it (fault `"put"`).
* An OpenAI system prompt is the first of the messages, and compaction drops it
  with the older turns (`memory/compaction.py:122`); `docs/technical-reference.md:104`
  says that it is kept separate. `SaysWhatWasAsked` speaks of the kept messages.
* Retrieval asks the graph for the latest user text, which has just been ingested:
  the first hit is the query, so the guard against dropping context without a
  replacement (`memory/compaction.py:70`) passes nearly always. A compacted request
  may be longer than the original; the second half of `Accounts` is about the rest.
* Elision's cutoff moves with the conversation, compaction rewrites its head and a
  discarded compression alternates with used ones: each changes the prefix the
  provider has cached, which `cache/strategy.py:64-66` says is preserved.
  `PrefixStable` excludes them, and turns that go out as they came; for the rest
  it is proved.
* The repeat-aware gate hashes all messages but the last (`proxy/engine.py:579`). A
  conversation that only grows never sends the same prefix twice, so the gate
  opens for retries and other conversations only.
* `_has_cache_control` (`proxy/engine.py:696`) does not look at tools, which are passed
  on with the markers a client set there, so that a breakpoint is added beside them;
  lines 572-573 say "The harness already manages prompt caching — preserve it, don't add
  breakpoints". `BreakpointPlaced` therefore speaks of markers on messages where it says
  what keeps one from being added; setup `Bare` has marked tools. `max_breakpoints` is
  not used (line 571), and a marker that `_mark_raw` cannot place is reported as
  placed (`inject` in the metadata).
* When the outgoing body cannot be encoded, `_compress_request` forwards the client's
  body and returns the compacted request (`proxy/engine.py:548`), whose tokens are then
  reported, though line 547 says "report no token delta". A lone surrogate in the tools
  does that (setup `Garbled`); `CountsWhatIsSent` leaves such a turn out.
* A breakpoint turns a string into a list of blocks and is not counted
  (`proxy/engine.py:534-535`); `CountsWhatIsSent` leaves out the turns that got one.
* `_int` raises on NaN and Infinity (`proxy/usage.py:35`), which Python reads in
  JSON, and nothing above it catches that: an answer that was obtained becomes an
  error. `parse_usage` is documented as "Never raises" (line 48). The model's counts
  are whole numbers.
* Streamed turns and turns whose provider fails leave no event; a near-duplicate
  is not counted as a hit; a provider's usage has no column in the database.
* The memory graph keeps every edge of every turn and a graph per tenant for ever
  (`memory/store.py:74`, `memory/provider.py:67`).
* `memory_keep_recent` of 0 makes `_window_start` read past the end: the exception is
  caught and no request is ever compacted (`LooksPastTheEnd`).

## 8. Not modelled

* In the engine: the local routes for health, statistics and metrics, header
  filtering; `memory_provider.for_tenant` is taken not to raise (it is outside the
  `try`, `engine.py:471`). Streams end when they begin: what is relayed after the
  headers changes no state.
* The rounding of floats in the limiter and the sampler; collisions of digests; a
  row whose SQLite write is torn or fails (the metrics sink drops it, best-effort).
* AES-GCM and HKDF are what they guarantee; the sealing of the index's snapshot;
  the in-memory epoch store, which forgets at a restart by design.
* In texts: punctuation, letter case, indentation, sentences, unclosed fences (prose
  to `classify_spans`); in bodies: the fields no definition reads, which are passed
  on as they are.
* Semantic retrieval and its embedders (`memory/embedding.py`), the LLM summarizer
  and the unwired SQLite graph store (`memory/sqlite_store.py`); rendering
  (`obs/report.py`, `prometheus.py`); the patterns of `redact/`; the offline evaluation
  (`eval/`, `qa/`): numeric models, formatting, text rules or batch scoring, without
  state of their own.
