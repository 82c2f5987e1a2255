--------------------------- MODULE BreakpointGate ---------------------------
(***************************************************************************)
(* Which turns of a process get a prompt-cache breakpoint (the injection   *)
(* of parcus.proxy.engine and the strategies of parcus.cache.strategy),    *)
(* and which get their compression checked (parcus.compress.sampling).     *)
(*                                                                         *)
(* Both are decided when a turn arrives, without an await, from what the   *)
(* turns before it have left in memory.  A turn that is then answered from *)
(* the cache, refused by its provider or streamed counts like any other.   *)
(***************************************************************************)
EXTENDS PrefixSeen, Sequences

CONSTANTS
    Requests,      \* the turns clients may send
    Inject,        \* cache_inject
    RepeatAware,   \* cache_inject_repeat_aware
    MinPrefix,     \* min_prefix_tokens of the provider
    RateNum, RateDen,   \* invariant_sample_rate, as a fraction
    MaxTime, MaxTurns, MaxCalls, MaxRestarts
                   \* bounds: the clock; sightings, samples of a life; restarts

(***************************************************************************)
(* A request, as compressed, is a record of                                *)
(*   tenant, dialect                                                       *)
(*   parses     whether it is canonicalized                                *)
(*   messages   how many there are                                         *)
(*   prefix     the system prompt, tools and messages but the last         *)
(*   size       the tokens of that prefix                                  *)
(*   marked     a content block of it has a cache_control of its own       *)
(***************************************************************************)
ASSUME GateAssumption ==
    /\ \A r \in Requests : r.messages \in Nat
    /\ IsFiniteSet(Requests)

ASSUME SampleAssumption ==
    RateNum \in Nat /\ RateDen \in Nat \ {0} /\ RateNum <= RateDen

ASSUME BoundAssumption == {MaxTime, MaxTurns, MaxCalls, MaxRestarts} \subseteq Nat

VARIABLES
    now,         \* the wall clock
    seen,        \* PrefixSeenSet._seen
    turn,        \* the place the next insertion into it takes
    sampler,     \* the counters of a VerifySampler
    sightings,   \* history: every sighting of this life of the process
    restarts     \* history

vars == <<now, seen, turn, sampler, sightings, restarts>>
gate == <<seen, turn, sightings>>

Key(r) == <<r.tenant, r.prefix>>
Keys == {Key(r) : r \in Requests}

-----------------------------------------------------------------------------
(* The gate.                                                               *)

\* Only Anthropic caches at breakpoints.
TakesBreakpoints(dialect) == dialect = "anthropic"

\* cacheable_boundary: every message but the last.  With fewer than two there
\* is none to mark.
Boundary(r) == r.messages - 1

Qualifies(r) ==
    /\ Inject /\ r.parses
    /\ TakesBreakpoints(r.dialect)
    /\ ~r.marked
    /\ Boundary(r) >= 1
    /\ r.size >= MinPrefix

\* Mutant: the prefix is looked up after it has been recorded.
LateVerdict(r) == SeenRecently(Sighted(seen, Key(r), now, turn), Key(r), now)

Verdict(r) == SeenRecently(seen, Key(r), now)

\* record_and_check, where there is a prefix worth asking about.
Sight(r) ==
    IF Qualifies(r) /\ RepeatAware
    THEN /\ turn <= MaxTurns
         /\ seen' = Sighted(seen, Key(r), now, turn)
         /\ turn' = turn + 1
         /\ sightings' = Append(sightings, [key |-> Key(r), at |-> now, inject |-> Verdict(r)])
    ELSE UNCHANGED gate

-----------------------------------------------------------------------------
(* The self-check of a compression pass, on a fraction of its calls.       *)

NoCalls == [calls |-> 0, verified |-> 0]

\* Mutant: a call is verified though the share is met already.
VerifyAlso(s) == RateDen * s.verified <= RateNum * (s.calls + 1)

ShouldVerify(s) == RateDen * s.verified < RateNum * (s.calls + 1)

Sampled(s) ==
    [calls |-> s.calls + 1, verified |-> s.verified + (IF ShouldVerify(s) THEN 1 ELSE 0)]

Sample(r) ==
    IF r.parses
    THEN sampler.calls < MaxCalls /\ sampler' = Sampled(sampler)
    ELSE UNCHANGED sampler

-----------------------------------------------------------------------------

Arrive(r) ==
    /\ Sample(r)
    /\ Sight(r)
    /\ UNCHANGED <<now, restarts>>

\* The wall clock moves on, or is set back.
Clock ==
    /\ now' \in 0..MaxTime \ {now}
    /\ UNCHANGED <<gate, sampler, restarts>>

\* The process dies: all of it was in memory.
Restart ==
    /\ restarts < MaxRestarts
    /\ restarts' = restarts + 1
    /\ seen' = NothingSeen /\ turn' = 1 /\ sightings' = << >>
    /\ sampler' = NoCalls
    /\ UNCHANGED now

Init ==
    /\ now = 0
    /\ seen = NothingSeen /\ turn = 1 /\ sightings = << >>
    /\ sampler = NoCalls
    /\ restarts = 0

Next == (\E r \in Requests : Arrive(r)) \/ Clock \/ Restart

Spec == Init /\ [][Next]_vars

-----------------------------------------------------------------------------
(***************************************************************************)
(* Properties.                                                             *)
(***************************************************************************)

\* Every variable has its type, and the seen-set (seen.py:58) never holds more
\* than its cap, however many prefixes and tenants come by.
TypeOK ==
    /\ now \in Int
    /\ turn \in Nat
    /\ sightings \in Seq([key : Keys, at : Int, inject : BOOLEAN])
    /\ DOMAIN seen \subseteq Keys
    /\ seen \in [DOMAIN seen -> [at : Int, turn : Nat]]
    /\ Cardinality(DOMAIN seen) <= Cap
    /\ sampler \in [calls : Nat, verified : Nat]
    /\ restarts \in Nat

\* The keys sighted strictly between two sightings.
Between(i, j) == {sightings[m].key : m \in i + 1..j - 1}
Since(i) == Between(i, Len(sightings) + 1)

\* The i-th sighting is the last one of its key so far.
IsLatest(i) == sightings[i].key \notin Since(i)

\* The seen-set is the newest sightings of this life, key by key: those with
\* fewer than Cap other keys since, with the clock of their latest sighting.
\* Reinsertion and eviction never lose a recent one nor keep an old one.
EntryIs(k, i) ==
    /\ i \in 1..Len(sightings)
    /\ sightings[i].key = k /\ sightings[i].at = seen[k].at
    /\ IsLatest(i)
    /\ Cardinality(Since(i)) < Cap

SeenIsNewest ==
    /\ \A k \in DOMAIN seen : EntryIs(k, seen[k].turn)
    /\ \A i \in 1..Len(sightings) :
          Cardinality(Since(i)) < Cap => sightings[i].key \in DOMAIN seen

\* The verdicts are what the set's documentation promises: a breakpoint is
\* injected exactly when the same tenant had the same prefix sighted before in
\* this life, at most the TTL before by the wall clock, and fewer than Cap
\* other prefixes of anyone were sighted since.  So the premium of a cache
\* write is never paid on a first sighting, nor on another tenant's.
Repeats(i, j) ==
    /\ sightings[j].key = sightings[i].key
    /\ sightings[j].key \notin Between(j, i)
    /\ sightings[i].at - sightings[j].at <= SeenTTL
    /\ Cardinality(Between(j, i)) < Cap

VerdictsRight ==
    \A i \in 1..Len(sightings) :
        sightings[i].inject <=> \E j \in 1..i - 1 : Repeats(i, j)

\* The self-check runs on the share of the calls that was asked for, neither
\* more nor less, at every moment since the process started.
SampleShare ==
    /\ RateNum * sampler.calls <= RateDen * sampler.verified
    /\ RateDen * sampler.verified < RateNum * sampler.calls + RateDen
=============================================================================
