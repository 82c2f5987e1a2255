------------------------------ MODULE Outbound ------------------------------
(***************************************************************************)
(* A conversation through the engine (parcus.proxy.engine): what a client  *)
(* asks, what is forwarded in its place, and what is accounted for it.     *)
(*                                                                         *)
(* The client sends all of its conversation with every turn.  From there   *)
(* to the call of the provider there is no await: memory, compression, the *)
(* token guard, injection and serialization are one step.  The gates,      *)
(* routes, and caches in time are those of ProxyEngine; here they let the  *)
(* turn pass.                                                              *)
(***************************************************************************)
EXTENDS Compression, Compaction

CONSTANTS
    Setups,      \* configurations, and what is said under them
    Idle,        \* no turn is with the provider
    MaxItems, MaxTurns, MaxRestarts
                 \* bounds: a conversation; the turns; restarts

(***************************************************************************)
(* A setup is a record of                                                  *)
(*   dialect, system, tools    of every body                               *)
(*   tenant                    of the client                               *)
(*   structured                parse_structured                            *)
(*   memory     "off", "ingest", "inject" or "summary"                     *)
(*   inject, minPrefix         cache_inject, and the provider's minimum    *)
(*   cache, similar            the exact cache, the similarity index       *)
(*   metrics                   whether there are sinks                     *)
(* and of the settings of Compression and Compaction.  It also says what   *)
(* happens under it: the messages of the client (asks) and of the provider *)
(* (replies) with the usage it reports (usages), whether turns stream, and *)
(* the mishaps.                                                            *)
(***************************************************************************)
ASSUME BoundAssumption == MaxItems \in Nat /\ MaxTurns \in Nat /\ MaxRestarts \in Nat

\* A list of blocks as system prompt is an "other" here.  Each provider reports
\* what it charged under its own key, if it charged anything.
ASSUME SetupAssumption ==
    \A s \in Setups :
        /\ s.dialect \in Dialects /\ s.tools \in Texts
        /\ s.system \in Contents /\ s.system.kind \in {"none", "text", "other"}
        /\ s.asks \union s.replies \subseteq Items
        /\ {s.keepRecent, s.keepRecentTurns, s.minMessages, s.retrieve, s.items,
            s.minChars, s.minPrefix} \subseteq Int
        /\ s.learned \in {"off", "on", "missing"} /\ s.streams \subseteq BOOLEAN
        /\ \A u \in s.usages :
              /\ {u.input, u.output, u.read, u.write} \subseteq Int
              /\ u.shape # (IF s.dialect = "gemini" THEN "usageMetadata" ELSE "usage")
                    => u.input = 0

VARIABLES
    setup,      \* the configuration, which does not change
    history,    \* the client: the conversation so far
    turn,       \* the turn that is with the provider
    last,       \* history: the turn before it in this conversation
    graph,      \* the memory
    stored,     \* the response cache: request -> reply
    totals,     \* AggregateSink
    log,        \* the events of LoggingSink and SqliteMetricsSink
    life,       \* the events of earlier lives of the process
    charged,    \* history: the input tokens providers charged
    turns, restarts   \* history

vars == <<setup, history, turn, last, graph, stored, totals, log, life, charged,
          turns, restarts>>

-----------------------------------------------------------------------------
(* _apply_memory.                                                          *)

\* Mutant: only the latest message is looked at.
EndsStructured(request) == Last(request.messages).raw # NoRaw

HasStructured(request) == \E i \in DOMAIN request.messages : request.messages[i].raw # NoRaw

WithMemory(canonical, memory) ==
    IF setup.memory \in {"off", "ingest"} \/ ~Ingests(canonical) \/ HasStructured(canonical)
    THEN canonical
    ELSE IF setup.memory = "summary" THEN CompactBySummary(canonical, setup)
    ELSE CompactWithMemory(canonical, memory, setup)

Remembered(canonical) ==
    IF setup.memory = "off" THEN graph ELSE Ingested(graph, canonical)

\* _memory_structural_ok
StartsWithUser(request) ==
    IF request.messages # << >> /\ IsUser(request.messages[1]) THEN "good" ELSE "bad"

-----------------------------------------------------------------------------
(* _inject_cache_breakpoint, repeat-aware or not: BreakpointGate.          *)

\* Mutant: only the latest message is looked at.
EndsWithCacheControl(request) ==
    LET m == Last(request.messages)
    IN  m.raw # NoRaw /\ \E j \in DOMAIN m.raw.content.blocks : m.raw.content.blocks[j].cached

\* Messages are looked at, tools are not.
HasCacheControl(request) ==
    \E i \in DOMAIN request.messages :
        LET m == request.messages[i]
        IN  m.raw # NoRaw /\ \E j \in DOMAIN m.raw.content.blocks : m.raw.content.blocks[j].cached

CacheableBoundary(request) == Len(request.messages) - 1

PrefixText(request) ==
    (IF request.system = NoSystem THEN << >> ELSE request.system) \o request.tools
        \o FlattenSeq([i \in 1..CacheableBoundary(request) |-> MessageText(request.messages[i])])

\* The marker goes on the last message of the prefix.
Injected(request) ==
    IF /\ setup.inject
       /\ request.dialect = "anthropic"
       /\ ~HasCacheControl(request)
       /\ CacheableBoundary(request) >= 1
       /\ Tokens(PrefixText(request), setup) >= setup.minPrefix
    THEN [request EXCEPT !.breakpoint = CacheableBoundary(request)]
    ELSE request

-----------------------------------------------------------------------------
(* _compress_request.                                                      *)

\* Mutant: what was measured is reported though it was discarded.
GuardedKeepingStats(working, packed) ==
    IF Size(packed.request, setup) > Size(working, setup)
    THEN Outcome(working, packed.stats) ELSE packed

\* Mutant: characters are compared, not tokens.
GuardedByLength(working, packed) ==
    IF Chars(RequestText(packed.request)) > Chars(RequestText(working))
    THEN Untouched(working) ELSE packed

\* Never cost more: a request that became longer is not used.
Guarded(working, packed) ==
    IF Size(packed.request, setup) > Size(working, setup) THEN Untouched(working) ELSE packed

\* All that is written into the bytes of a body.
BodyText(body) ==
    AllText(body.system) \o body.tools
        \o FlattenSeq([i \in DOMAIN body.items |-> ItemJson(body.items[i])])

\* Bytes that cannot be encoded: the original goes out.
Encoded(request, stats, working, body) ==
    IF Encodable(BodyText(Serialized(request, body)))
    THEN [sent |-> Serialized(request, body), request |-> request, stats |-> stats]
    ELSE [sent |-> body, request |-> working, stats |-> << >>]

CompressRequest(working, body) ==
    LET Emitted(chosen) == Encoded(Injected(chosen.request), chosen.stats, working, body)
    IN  Emitted(Guarded(working, Compressed(working, setup)))

StageStats(canonical, working, stats) ==
    (IF working = canonical THEN << >>
     ELSE <<Stage("memory", Size(canonical, setup), Size(working, setup),
                  StartsWithUser(working))>>)
        \o stats

-----------------------------------------------------------------------------
(* _handle and prepare_stream, up to the provider.                         *)

Body(items) == [system |-> setup.system, items |-> items, tools |-> setup.tools]

\* _maybe_cache_key: a key is a digest, and a digest is of bytes.
Cacheable(canonical, working, stream) ==
    setup.cache /\ ~stream /\ working = canonical
        /\ Encodable(RequestText(canonical) \o canonical.tools)

Passed(body, stream) ==
    [asked |-> body, sent |-> body, canonical |-> Unread, working |-> Unread,
     stages |-> << >>, before |-> 0, after |-> 0, key |-> Unread, stream |-> stream]

\* What goes out for a body that was read, and what is kept of it until the reply.
Optimized(body, stream, canonical, working, out) ==
    [asked |-> body, sent |-> out.sent, canonical |-> canonical, working |-> working,
     stages |-> StageStats(canonical, working, out.stats),
     before |-> Size(canonical, setup), after |-> Size(out.request, setup),
     key |-> IF Cacheable(canonical, working, stream) THEN canonical ELSE Unread,
     stream |-> stream]

Prepared(body, stream) ==
    LET Compressing(canonical, working) ==
            Optimized(body, stream, canonical, working, CompressRequest(working, body))
        Remembering(canonical) ==
            IF canonical = Unread THEN Passed(body, stream)
            ELSE Compressing(canonical, WithMemory(canonical, Remembered(canonical)))
    IN  Remembering(Parsed(setup.dialect, body, setup.structured))

GraphAfter(body) ==
    LET canonical == Parsed(setup.dialect, body, setup.structured)
    IN  IF canonical = Unread THEN graph ELSE Remembered(canonical)

-----------------------------------------------------------------------------
(* handle: the event of a turn, once its result is there.                  *)

CacheState(t) == IF t.key = Unread THEN "off" ELSE "miss"

EventOf(t, cache, status, usage) ==
    Event(setup.tenant, cache, status, t.before, t.after, t.stages, usage)

\* A turn that raised, or was streamed, has no event.
Unrecorded == UNCHANGED <<totals, log>>

Record(event) ==
    IF setup.metrics
    THEN totals' = Folded(totals, event) /\ log' = Append(log, event)
    ELSE Unrecorded

\* What a provider charged for an answer the client got and that is accounted for.
Charge(answer) ==
    charged' = charged + (IF setup.metrics THEN Clamped(answer.input) ELSE 0)

-----------------------------------------------------------------------------

May(mishap) == mishap \in setup.mishaps

Init ==
    /\ setup \in Setups
    /\ history = << >> /\ turn = Idle /\ last = Idle
    /\ graph = NoGraph
    /\ stored = [k \in {} |-> Idle]
    /\ totals = NoTotals /\ log = << >> /\ life = 0 /\ charged = 0
    /\ turns = 0 /\ restarts = 0

Says(item) ==
    /\ turn = Idle
    /\ turns < MaxTurns /\ Len(history) < MaxItems
    /\ item \in setup.asks
    /\ turns' = turns + 1
    /\ graph' = GraphAfter(Body(Append(history, item)))

\* The turn goes to the provider: the caches have nothing for it, or no more.
Forward ==
    \E item \in setup.asks, stream \in setup.streams :
        /\ Says(item)
        /\ turn' = Prepared(Body(Append(history, item)), stream)
        /\ UNCHANGED <<setup, history, last, stored, totals, log, life, charged, restarts>>

\* The response is in the exact cache, or a near duplicate's is.
ReplayedFor(t, k) ==
    /\ t.key # Unread
    /\ k = t.key \/ setup.similar
    /\ Record(EventOf(t, IF k = t.key THEN "hit" ELSE "similar", 200, NoUsage))

FromCache ==
    \E item \in setup.asks, k \in DOMAIN stored :
        /\ Says(item)
        /\ ReplayedFor(Prepared(Body(Append(history, item)), FALSE), k)
        /\ history' = history \o <<item, stored[k]>>
        /\ UNCHANGED <<setup, turn, last, stored, life, charged, restarts>>

Done ==
    /\ turn # Idle
    /\ turn' = Idle
    /\ last' = turn
    /\ UNCHANGED <<setup, graph, life, turns, restarts>>

\* A streamed answer is relayed without a look at it.
Answer ==
    \E reply \in setup.replies, answer \in setup.usages :
        /\ Done
        /\ history' = Append(turn.asked.items, reply)
        /\ IF turn.stream
           THEN Unrecorded /\ UNCHANGED <<stored, charged>>
           ELSE /\ Record(EventOf(turn, CacheState(turn), 200, Usage(setup.dialect, answer)))
                /\ Charge(answer)
                /\ stored' = IF turn.key = Unread THEN stored
                             ELSE [k \in DOMAIN stored \union {turn.key} |->
                                      IF k = turn.key THEN reply ELSE stored[k]]

\* An answer with an error status: the client keeps its conversation as it was.
Refuse ==
    /\ May("refuse")
    /\ Done
    /\ IF turn.stream THEN Unrecorded
       ELSE Record(EventOf(turn, CacheState(turn), 500, NoUsage))
    /\ UNCHANGED <<history, stored, charged>>

\* No answer at all, and an exception.
Fail ==
    /\ May("fail")
    /\ Done
    /\ Unrecorded
    /\ UNCHANGED <<history, stored, charged>>

\* The client starts another conversation.
Renew ==
    /\ May("renew")
    /\ turn = Idle /\ history # << >>
    /\ history' = << >> /\ last' = Idle
    /\ UNCHANGED <<setup, turn, graph, stored, totals, log, life, charged, turns, restarts>>

\* The process starts again: memory and totals are gone, the database is not.
Restart ==
    /\ May("restart")
    /\ restarts < MaxRestarts
    /\ restarts' = restarts + 1
    /\ turn' = Idle /\ last' = Idle
    /\ graph' = NoGraph
    /\ totals' = NoTotals /\ life' = Len(log)
    /\ UNCHANGED <<setup, history, stored, log, charged, turns>>

Next == Forward \/ FromCache \/ Answer \/ Refuse \/ Fail \/ Renew \/ Restart

Spec == Init /\ [][Next]_vars

-----------------------------------------------------------------------------
(* Reference definitions, for a turn t under a setup s.                     *)

Sending == turn # Idle
Compacted(t) == t.working # t.canonical

\* Something else goes out than what was asked.
Replaced(t) == t.sent # t.asked

\* Fenced code in the system prompts has lines of its own.
PromptsSetCodeApart ==
    \A s \in Setups : s.dialect # "openai" /\ s.system.kind = "text" => CodeApart(s.system.text)

\* What a text says, of which only the words a pass may drop are gone.
Essence(text, s) ==
    LET dropped == Blanks \union (IF s.filler THEN s.fillers ELSE {})
                          \union (IF s.learned = "on" THEN Dull ELSE {})
    IN  Kept(text, {i \in DOMAIN text : text[i] \notin dropped})

Marks(text) == ToSet(Marker) \subseteq ToSet(text)

BlockKept(a, b, s) ==
    /\ a.type = b.type /\ a.id = b.id
    /\ IF a.type = "text" THEN Essence(a.text, s) = Essence(b.text, s) ELSE a.text = b.text
    /\ a.payload = b.payload \/ (s.elide /\ a.type = "tool_result" /\ b.payload = Stub)

ContentKept(a, b, s) ==
    CASE a.kind = "text" ->
            Marks(AllText(b)) \/ Essence(a.text, s) = Essence(AllText(b), s)
      [] a.kind = "blocks" ->
            /\ b.kind = "blocks" /\ Len(a.blocks) = Len(b.blocks)
            /\ \A i \in DOMAIN a.blocks : BlockKept(a.blocks[i], b.blocks[i], s)
      [] OTHER -> a = b

ItemKept(a, b, s) == a.role = b.role /\ ContentKept(a.content, b.content, s)

Holds(text, part) ==
    \E i \in 0..Len(text) - Len(part) : SubSeq(text, i + 1, i + Len(part)) = part

\* The ids of tool calls and results, in order.
IdsOf(content) ==
    LET ids == [j \in DOMAIN content.blocks |-> content.blocks[j].id]
    IN  Kept(ids, {j \in DOMAIN ids : ids[j] # ""})

ToolIds(body) == FlattenSeq([i \in DOMAIN body.items |-> IdsOf(body.items[i].content)])

\* The places of the cache_control markers of a body; 0 is that of the tools.
ToolMarks(body) == {<<0, k>> : k \in {j \in DOMAIN body.tools : body.tools[j] = CacheControl}}

MessageMarks(body) ==
    UNION {{<<i, j>> : j \in {k \in DOMAIN body.items[i].content.blocks :
                                 body.items[i].content.blocks[k].cached}}
              : i \in DOMAIN body.items}

CacheMarks(body) == ToolMarks(body) \union MessageMarks(body)

Unmarked(item) ==
    [item EXCEPT !.content = [text |-> AllText(@), ids |-> IdsOf(@)]]

Faithful(t, s) ==
    LET asked == t.asked.items
        sent == t.sent.items
        dropped == Len(asked) - Len(sent)
    IN  /\ t.sent.system.kind = t.asked.system.kind
        /\ Essence(t.sent.system.text, s) = Essence(t.asked.system.text, s)
        /\ dropped # 0 => Compacted(t)
        /\ \A i \in DOMAIN sent :
              (Compacted(t) /\ i = 1) \/ ItemKept(asked[dropped + i], sent[i], s)

ValidWindow(t, s) ==
    LET asked == t.asked.items
        sent == t.sent.items
        whole == Essence(AllText(asked[Len(asked) - Len(sent) + 1].content), s)
    IN  /\ sent[1].role = "user"
        /\ Len(sent) >= s.keepRecentTurns
        /\ \/ Marks(AllText(sent[1].content))
           \/ IsSuffix(whole, Essence(AllText(sent[1].content), s))

Recoverable(t, s) ==
    \A p \in Places(t.working) : \E k \in 1..p[1] :
        Holds(Essence(AllText(t.sent.items[k].content), s), Essence(SpanAt(t.working, p).text, s))

Placed(t, s) ==
    LET had == CacheMarks(t.asked)
        added == CacheMarks(t.sent) \ had
        sent == t.sent.items
    IN  /\ had \subseteq CacheMarks(t.sent)
        /\ added # {} =>
              /\ s.dialect = "anthropic" /\ s.inject /\ had = ToolMarks(t.asked)
              /\ \E m \in added : /\ added = {m}
                                  /\ m[1] = Len(sent) - 1
                                  /\ m[2] = Len(sent[m[1]].content.blocks)

\* A turn that was read, compressed, and neither compacted nor elided.
Steady(t, s) == t.canonical # Unread /\ ~Compacted(t) /\ ~s.elide /\ t.stages # << >>

-----------------------------------------------------------------------------
(* Properties.                                                             *)

Verdicts == {"none", "good", "bad"}

\* Every node of the memory is there once, and edges join nodes; a turn that
\* is read has a breakpoint within its messages and verdicts that are some.
TypeOK ==
    /\ setup \in Setups
    /\ IsInjective(graph.nodes)
    /\ \A i \in DOMAIN graph.edges :
          {graph.edges[i].src, graph.edges[i].dst} \subseteq ToSet(graph.nodes)
    /\ \A i \in DOMAIN log : \A j \in DOMAIN log[i].stages : log[i].stages[j].ok \in Verdicts
    /\ life \in 0..Len(log) /\ charged \in Nat
    /\ turns \in 0..MaxTurns /\ restarts \in 0..MaxRestarts

\* What is forwarded says what was asked (compress/, proxy/dialects.py): message
\* by message the same roles, words and code, but for the words a pass may drop,
\* the payloads elision may stub and the repeats dedup may mark; of a compacted
\* request the messages of the window but its first (memory/compaction.py).
SaysWhatWasAsked == Sending => Faithful(turn, setup)

\* A compacted request is one a provider takes (compaction.py:5-10): the window
\* starts with the user, holds the latest messages, and its first message still
\* ends with what it was.
WindowValid == Sending /\ Compacted(turn) /\ Replaced(turn) => ValidWindow(turn, setup)

\* Tool calls stay paired with their results (engine.py:480-482): every one of
\* them is forwarded, in its order, whatever is compacted, elided or dropped.
ToolPairing == Sending => ToolIds(turn.sent) = ToolIds(turn.asked)

\* What dedup leaves out can still be read (dedup.py:6-12): all that a request
\* says is forwarded, in its own message or in an earlier one, where it is not
\* the original that goes out.
DedupRecoverable == Sending /\ Replaced(turn) => Recoverable(turn, setup)

\* The stages of a turn account for all of its reduction (engine.py:590-617):
\* each starts from what the one before it left, from what was asked to what is
\* forwarded. And compression never makes a turn cost more (engine.py:513-516).
Accounts ==
    Sending =>
        /\ Account(turn.stages, turn.before, turn.after)
        /\ ~Compacted(turn) => turn.after <= turn.before

\* What is counted is what is forwarded (engine.py:378-379): reading the forwarded
\* body again gives the tokens that were reported, the original included where
\* that goes out.  A marker that was added is not counted, nor is the original
\* where it goes out in the place of a compacted request.
CountsWhatIsSent ==
    Sending /\ turn.canonical # Unread =>
        \/ CacheMarks(turn.sent) # CacheMarks(turn.asked)
        \/ Compacted(turn) /\ ~Replaced(turn)
        \/ Size(Parsed(setup.dialect, turn.sent, TRUE), setup) = turn.after

\* No self-check ever fails (invariants.py:8-9: "Healthy = ~100%").  System
\* prompts whose fenced code shares a line with words, where one does fail, are
\* left out of this run (PromptAssumption).
AlwaysHealthy == Sending => \A i \in DOMAIN turn.stages : turn.stages[i].ok # "bad"

\* At most one cache_control marker is added, at the end of the message before
\* the last, on Anthropic only, and not to messages of which the client marked
\* one; all of the client's markers stay, on messages and on tools
\* (engine.py:563-587, dialects.py:282-348).  A marker on tools does not keep
\* one from being added (README, section 7).
BreakpointPlaced == Sending => Placed(turn, setup)

\* Where requests agree from the start, so does what is forwarded for them: the
\* prefix a provider has cached is met again.  Elision, compaction, a discarded
\* compression and a turn that cannot be read move it (README, section 7) and
\* are not claimed.
PrefixStable ==
    Sending /\ last # Idle /\ Steady(turn, setup) /\ Steady(last, setup) =>
        \A n \in DOMAIN turn.asked.items \intersect DOMAIN last.asked.items :
            SubSeq(turn.asked.items, 1, n) = SubSeq(last.asked.items, 1, n)
                => Unmarked(turn.sent.items[n]) = Unmarked(last.sent.items[n])

\* The running totals are what the database says of the rows of this life of
\* the process (obs/sinks.py, obs/store.py), however it was restarted.
SinksAgree == totals = Snapshot(SubSeq(log, life + 1, Len(log)))

\* What providers charged for buffered answers is what the events say, once per
\* answer: replays and refusals add nothing (engine.py:408-415).
BilledOnce ==
    charged = Total([i \in DOMAIN log |-> IF log[i].usage = NoUsage THEN 0 ELSE log[i].usage.input])

\* Lossless compression leaves every word a word (invariants.py:8-9).
WordsSeparated ==
    Sending /\ ~setup.filler /\ setup.learned = "off" /\ ~Compacted(turn) =>
        \A i \in DOMAIN turn.asked.items :
            turn.asked.items[i].content.kind = "text" =>
                Words(turn.asked.items[i].content.text) = Words(AllText(turn.sent.items[i].content))
=============================================================================
