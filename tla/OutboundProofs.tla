--------------------------- MODULE OutboundProofs ---------------------------
(***************************************************************************)
(* What Outbound checks on small instances, for every setup: what a turn   *)
(* forwards (from the lemmas of CompressionProofs about every pass of the  *)
(* chain and about the memory) and what is accounted for it.               *)
(***************************************************************************)
EXTENDS Outbound, CompressionProofs

LEMMA SetupIs ==
    ASSUME NEW s \in Setups
    PROVE  /\ s.dialect \in Dialects /\ s.tools \in Texts
           /\ s.system \in Contents /\ s.system.kind \in {"none", "text", "other"}
           /\ \A item \in s.asks \union s.replies : item \in Items
           /\ s.keepRecent \in Int /\ s.keepRecentTurns \in Int /\ s.minMessages \in Int
           /\ s.retrieve \in Int /\ s.items \in Int /\ s.minChars \in Int /\ s.minPrefix \in Int
           /\ Learns(s)
           /\ \A stream \in s.streams : stream \in BOOLEAN
           /\ \A u \in s.usages :
                 /\ u.input \in Int /\ u.output \in Int /\ u.read \in Int /\ u.write \in Int
                 /\ u.shape # Shape(s.dialect) => u.input = 0
BY SetupAssumption DEF Learns, Shape

-----------------------------------------------------------------------------
(* A turn, step by step.                                                   *)

SameButBreakpoint(a, b) ==
    /\ a.dialect = b.dialect /\ a.system = b.system /\ a.messages = b.messages /\ a.tools = b.tools

LEMMA SameText ==
    ASSUME NEW a, NEW b, SameButBreakpoint(a, b), NEW s
    PROVE  RequestText(a) = RequestText(b) /\ Size(a, s) = Size(b, s)
<1>1. RequestText(a) = RequestText(b)
  BY DEF SameButBreakpoint, RequestText
<1>2. QED BY <1>1 DEF Size

\* Injection sets the breakpoint or leaves it.
LEMMA InjectedIs ==
    ASSUME NEW r \in Requests
    PROVE  /\ Injected(r) \in Requests /\ SameButBreakpoint(r, Injected(r))
           /\ \/ Injected(r).breakpoint = r.breakpoint
              \/ /\ setup.inject /\ r.dialect = "anthropic" /\ ~HasCacheControl(r)
                 /\ CacheableBoundary(r) >= 1 /\ Injected(r).breakpoint = CacheableBoundary(r)
<1>1. r = [dialect |-> r.dialect, system |-> r.system, messages |-> r.messages,
           tools |-> r.tools, breakpoint |-> r.breakpoint]
  BY RequestFields
<1>2. CASE Injected(r) = r
  BY <1>2 DEF SameButBreakpoint
<1>3. CASE Injected(r) # r
  <2> DEFINE n == CacheableBoundary(r)
  <2>1. /\ setup.inject /\ r.dialect = "anthropic" /\ ~HasCacheControl(r)
        /\ n >= 1 /\ Injected(r) = [r EXCEPT !.breakpoint = n]
    BY <1>3 DEF Injected
  <2>2. n \in Nat
    BY <2>1, RequestFields DEF CacheableBoundary
  <2> HIDE DEF n
  <2>3. Injected(r) = [dialect |-> r.dialect, system |-> r.system, messages |-> r.messages,
                       tools |-> r.tools, breakpoint |-> n]
    BY <1>1, <2>1
  <2>4. r.system \in Texts \union {NoSystem} /\ r.messages \in Seq(Messages)
    BY RequestFields
  <2>5. Injected(r) \in Requests
    BY <2>2, <2>3, <2>4, WithMessages
  <2>6. QED BY <2>1, <2>3, <2>5 DEF SameButBreakpoint, n
<1>4. QED BY <1>2, <1>3

\* Memory leaves a request as it is, or leaves out its older turns.
MemoryStep(a, b, s) ==
    \/ b = a
    \/ /\ Ingests(a) /\ ~HasStructured(a) /\ s.keepRecentTurns > 0
       /\ \E start \in 2..Len(a.messages) - s.keepRecentTurns + 1, header \in Seq(Clean) :
             a.messages[start].role = "user" /\ Windowed(a, b, start, header)

LEMMA WithMemoryIs ==
    ASSUME setup \in Setups, NEW g, Sound(g), NEW r \in Requests, r.breakpoint = 0
    PROVE  /\ WithMemory(r, g) \in Requests /\ WithMemory(r, g).breakpoint = 0
           /\ MemoryStep(r, WithMemory(r, g), setup)
<1> DEFINE b == WithMemory(r, g)
<1>1. CASE b = r
  BY <1>1 DEF MemoryStep
<1>2. CASE b # r
  <2>1. Ingests(r) /\ ~HasStructured(r) /\ b = Headings(r, g, setup)
    BY <1>2 DEF WithMemory, Headings
  <2>2. \A i \in DOMAIN r.messages : r.messages[i].raw = NoRaw
    BY <2>1 DEF HasStructured
  <2>3. PICK header \in Seq(Clean) :
             /\ b \in Requests
             /\ Windowed(r, b, WindowStart(r.messages, setup.keepRecentTurns), header)
             /\ WindowStart(r.messages, setup.keepRecentTurns)
                    \in 2..Len(r.messages) - setup.keepRecentTurns + 1
             /\ setup.keepRecentTurns > 0
             /\ r.messages[WindowStart(r.messages, setup.keepRecentTurns)].role = "user"
    <3> HIDE DEF b
    <3>1. QED BY <1>2, <2>1, <2>2, SetupIs, CompactedIs
  <2>4. b.breakpoint = 0
    BY <2>3 DEF Windowed
  <2>5. MemoryStep(r, b, setup)
    BY <2>1, <2>3 DEF MemoryStep
  <2>6. QED BY <2>3, <2>4, <2>5
<1>3. QED BY <1>1, <1>2

\* What is forwarded for a request: the chain's result unless it grew, with its
\* breakpoint, or the original where that cannot be encoded.
Emits(working, body, out) ==
    \E chosen :
        /\ \/ chosen = Untouched(working)
           \/ /\ chosen = Compressed(working, setup)
              /\ ~(Size(chosen.request, setup) > Size(working, setup))
        /\ out = Encoded(Injected(chosen.request), chosen.stats, working, body)

LEMMA CompressRequestIs ==
    ASSUME NEW working, NEW body
    PROVE  Emits(working, body, CompressRequest(working, body))
<1> DEFINE chosen == Guarded(working, Compressed(working, setup))
<1>1. CompressRequest(working, body) = Encoded(Injected(chosen.request), chosen.stats, working, body)
  BY DEF CompressRequest
<1>2. \/ chosen = Untouched(working)
      \/ /\ chosen = Compressed(working, setup)
         /\ ~(Size(chosen.request, setup) > Size(working, setup))
  BY DEF Guarded
<1> HIDE DEF chosen
<1>3. QED BY <1>1, <1>2 DEF Emits

Conversations == Seq(Items)

\* A turn as it is prepared, from what was read to what goes out.
PreparedFrom(t, items, canonical, working, out) ==
    /\ canonical = Parsed(setup.dialect, Body(items), setup.structured)
    /\ canonical \in Requests /\ canonical.breakpoint = 0
    /\ working \in Requests /\ working.breakpoint = 0
    /\ MemoryStep(canonical, working, setup)
    /\ Emits(working, Body(items), out)
    /\ t = Optimized(Body(items), t.stream, canonical, working, out)

LEMMA BodyIs ==
    ASSUME setup \in Setups, NEW items \in Conversations
    PROVE  Body(items) \in Bodies /\ Body(items).items = items /\ Body(items).system = setup.system
           /\ Body(items).tools = setup.tools
BY SetupIs DEF Body, Bodies, Conversations

LEMMA RememberedSound ==
    ASSUME setup \in Setups, Sound(graph), NEW r \in Requests
    PROVE  Sound(Remembered(r))
BY IngestedSound DEF Remembered

LEMMA PreparedIs ==
    ASSUME setup \in Setups, Sound(graph), NEW items \in Conversations, NEW stream
    PROVE  \/ /\ Prepared(Body(items), stream) = Passed(Body(items), stream)
              /\ Parsed(setup.dialect, Body(items), setup.structured) = Unread
           \/ \E canonical, working, out :
                 PreparedFrom(Prepared(Body(items), stream), items, canonical, working, out)
<1> DEFINE body == Body(items)
           canonical == Parsed(setup.dialect, body, setup.structured)
           working == WithMemory(canonical, Remembered(canonical))
           out == CompressRequest(working, body)
           t == Prepared(body, stream)
<1>1. CASE canonical = Unread
  BY <1>1 DEF Prepared
<1>2. CASE canonical # Unread
  <2>1. body \in Bodies
    BY BodyIs
  <2>2. t = Optimized(body, stream, canonical, working, out)
    BY <1>2 DEF Prepared
  <2>3. canonical \in Requests /\ canonical.breakpoint = 0
    <3> HIDE DEF body
    <3>1. Reads(canonical, setup.dialect, body, setup.structured)
      BY <1>2, <2>1, ParsedIs
    <3>2. QED BY <3>1 DEF Reads
  <2>4. Sound(Remembered(canonical))
    <3> HIDE DEF canonical
    <3>1. QED BY <2>3, RememberedSound
  <2>5. working \in Requests /\ working.breakpoint = 0 /\ MemoryStep(canonical, working, setup)
    <3> HIDE DEF canonical
    <3>1. QED BY <2>3, <2>4, WithMemoryIs
  <2>6. Emits(working, body, out)
    BY CompressRequestIs
  <2>7. t.stream = stream
    BY <2>2 DEF Optimized
  <2> HIDE DEF t, working, out
  <2>8. PreparedFrom(t, items, canonical, working, out)
    BY <2>2, <2>3, <2>5, <2>6, <2>7 DEF PreparedFrom
  <2>9. QED BY <2>8 DEF t
<1>3. QED BY <1>1, <1>2

\* What goes out is a result of the chain, or the original.
LEMMA EmitsIs ==
    ASSUME setup \in Setups, NEW working \in Requests, NEW body, NEW out, Emits(working, body, out)
    PROVE  \E chosen :
              /\ Measures(working, chosen, setup)
              /\ chosen = Untouched(working) \/
                    (chosen = Compressed(working, setup)
                        /\ ~(Size(chosen.request, setup) > Size(working, setup)))
              /\ Injected(chosen.request) \in Requests
              /\ SameButBreakpoint(chosen.request, Injected(chosen.request))
              /\ \/ /\ Encodable(BodyText(Serialized(Injected(chosen.request), body)))
                    /\ out = [sent |-> Serialized(Injected(chosen.request), body),
                              request |-> Injected(chosen.request), stats |-> chosen.stats]
                 \/ /\ ~Encodable(BodyText(Serialized(Injected(chosen.request), body)))
                    /\ out = [sent |-> body, request |-> working, stats |-> << >>]
<1>1. PICK chosen :
        /\ \/ chosen = Untouched(working)
           \/ /\ chosen = Compressed(working, setup)
              /\ ~(Size(chosen.request, setup) > Size(working, setup))
        /\ out = Encoded(Injected(chosen.request), chosen.stats, working, body)
  BY DEF Emits
<1>2. Measures(working, chosen, setup)
  BY <1>1, SetupIs, UntouchedIs, CompressedIs DEF Keeps
<1>3. chosen.request \in Requests
  BY <1>2 DEF Measures
<1>4. Injected(chosen.request) \in Requests /\ SameButBreakpoint(chosen.request, Injected(chosen.request))
  BY <1>3, InjectedIs
<1>5. QED BY <1>1, <1>2, <1>4 DEF Encoded

-----------------------------------------------------------------------------
(* What a turn keeps until its reply is there.                             *)

\* The sizes of a turn, and its stages.
Accountable(t, s) ==
    /\ t.asked.items \in Conversations
    /\ t.before \in Sizes(s) \union {0} /\ t.after \in Sizes(s) \union {0}
    /\ t.stages \in Seq(StagesOf(Sizes(s)))
    /\ Account(t.stages, t.before, t.after)

LEMMA MemoryStageIs ==
    ASSUME NEW r \in Requests, NEW working \in Requests, NEW stats,
           stats \in Seq(StagesOf(Sizes(setup))), NEW z, Account(stats, Size(working, setup), z)
    PROVE  /\ StageStats(r, working, stats) \in Seq(StagesOf(Sizes(setup)))
           /\ Account(StageStats(r, working, stats), Size(r, setup), z)
<1> DEFINE S == StagesOf(Sizes(setup))
           x == Size(r, setup)
           y == Size(working, setup)
           ok == StartsWithUser(working)
           memory == IF working = r THEN << >> ELSE <<Stage("memory", x, y, ok)>>
<1>1. x \in Sizes(setup) /\ y \in Sizes(setup)
  BY DEF Sizes
<1>2. ok \in {"none", "good", "bad"}
  BY DEF StartsWithUser
<1>3. memory \in Seq(S) /\ Account(memory, x, y)
  <2>1. CASE working = r
    BY <2>1, AccountEmpty, EmptySeq
  <2>2. CASE working # r
    <3> HIDE DEF x, y, ok
    <3>1. <<Stage("memory", x, y, ok)>> \in Seq(S) /\ Account(<<Stage("memory", x, y, ok)>>, x, y)
      BY <1>1, <1>2, AccountSingle
    <3>2. QED BY <2>2, <3>1
  <2>3. QED BY <2>1, <2>2
<1>4. StageStats(r, working, stats) = memory \o stats
  BY DEF StageStats
<1> HIDE DEF memory, S
<1>5. QED BY <1>3, <1>4, AccountConcat DEF S, x, y

LEMMA EmittedIs ==
    ASSUME setup \in Setups, NEW working \in Requests, NEW body, NEW out, Emits(working, body, out)
    PROVE  /\ out.request \in Requests
           /\ out.stats \in Seq(StagesOf(Sizes(setup)))
           /\ Account(out.stats, Size(working, setup), Size(out.request, setup))
           /\ \/ Size(out.request, setup) = Size(working, setup)
              \/ ~(Size(out.request, setup) > Size(working, setup))
<1>1. PICK chosen :
              /\ Measures(working, chosen, setup)
              /\ chosen = Untouched(working) \/
                    (chosen = Compressed(working, setup)
                        /\ ~(Size(chosen.request, setup) > Size(working, setup)))
              /\ Injected(chosen.request) \in Requests
              /\ SameButBreakpoint(chosen.request, Injected(chosen.request))
              /\ \/ /\ Encodable(BodyText(Serialized(Injected(chosen.request), body)))
                    /\ out = [sent |-> Serialized(Injected(chosen.request), body),
                              request |-> Injected(chosen.request), stats |-> chosen.stats]
                 \/ /\ ~Encodable(BodyText(Serialized(Injected(chosen.request), body)))
                    /\ out = [sent |-> body, request |-> working, stats |-> << >>]
  BY EmitsIs
<1>2. CASE Encodable(BodyText(Serialized(Injected(chosen.request), body)))
  <2>1. out.request = Injected(chosen.request) /\ out.stats = chosen.stats
    BY <1>1, <1>2
  <2>2. Size(out.request, setup) = Size(chosen.request, setup)
    BY <1>1, <2>1, SameText
  <2>3. chosen = Untouched(working) => chosen.request = working
    BY DEF Untouched, Outcome
  <2>4. QED BY <1>1, <2>1, <2>2, <2>3 DEF Measures
<1>3. CASE ~Encodable(BodyText(Serialized(Injected(chosen.request), body)))
  <2>1. out.request = working /\ out.stats = << >>
    BY <1>1, <1>3
  <2>2. QED BY <2>1, AccountEmpty, EmptySeq
<1>4. QED BY <1>2, <1>3

LEMMA PreparedAccountable ==
    ASSUME setup \in Setups, Sound(graph), NEW items \in Conversations, NEW stream
    PROVE  Accountable(Prepared(Body(items), stream), setup)
<1> DEFINE t == Prepared(Body(items), stream)
<1>1. CASE t = Passed(Body(items), stream)
  <2>1. t.asked = Body(items) /\ t.before = 0 /\ t.after = 0 /\ t.stages = << >>
    BY <1>1 DEF Passed
  <2>2. Accountable(t, setup)
    <3> HIDE DEF t
    <3>1. QED BY <2>1, BodyIs, AccountEmpty, EmptySeq DEF Accountable
  <2>3. QED BY <2>2
<1>2. ASSUME NEW canonical, NEW working, NEW out, PreparedFrom(t, items, canonical, working, out)
      PROVE  Accountable(t, setup)
  <2> HIDE DEF t
  <2>1. /\ canonical \in Requests /\ working \in Requests
        /\ Emits(working, Body(items), out)
        /\ t = Optimized(Body(items), t.stream, canonical, working, out)
    BY <1>2 DEF PreparedFrom
  <2>2. /\ t.asked = Body(items) /\ t.stages = StageStats(canonical, working, out.stats)
        /\ t.before = Size(canonical, setup) /\ t.after = Size(out.request, setup)
    BY <2>1 DEF Optimized
  <2>3. /\ out.request \in Requests /\ out.stats \in Seq(StagesOf(Sizes(setup)))
        /\ Account(out.stats, Size(working, setup), Size(out.request, setup))
    BY <2>1, EmittedIs
  <2>4. /\ t.stages \in Seq(StagesOf(Sizes(setup)))
        /\ Account(t.stages, t.before, t.after)
    BY <2>1, <2>2, <2>3, MemoryStageIs
  <2>5. t.before \in Sizes(setup) /\ t.after \in Sizes(setup)
    BY <2>1, <2>2, <2>3 DEF Sizes
  <2>6. QED BY <2>2, <2>4, <2>5, BodyIs DEF Accountable
<1>3. QED BY <1>1, <1>2, PreparedIs

-----------------------------------------------------------------------------
(* The inductive invariant, and what a step does to it.                    *)

\* The events of turns under a setup.
Served(s) ==
    [tenant : {s.tenant}, cache : {"hit", "similar", "miss", "off"}, status : Nat,
     before : Sizes(s) \union {0}, after : Sizes(s) \union {0},
     stages : Seq(StagesOf(Sizes(s))), usage : Usages \union {NoUsage}]

IInv ==
    /\ setup \in Setups
    /\ history \in Conversations
    /\ Sound(graph)
    /\ \A k \in DOMAIN stored : stored[k] \in Items
    /\ turn # Idle => Accountable(turn, setup)
    /\ log \in Seq(Served(setup))
    /\ life \in 0..Len(log) /\ charged \in Nat
    /\ turns \in 0..MaxTurns /\ restarts \in 0..MaxRestarts

\* What a step does to the totals and the log, and what it logs.
Logged(event) == totals' = Folded(totals, event) /\ log' = Append(log, event)

LEMMA EventIs ==
    ASSUME NEW t, Accountable(t, setup), NEW cache \in {"hit", "similar", "miss", "off"},
           NEW status \in Nat, NEW usage \in Usages \union {NoUsage}
    PROVE  /\ EventOf(t, cache, status, usage) \in Served(setup)
           /\ EventOf(t, cache, status, usage).usage = usage
<1>1. EventOf(t, cache, status, usage) =
        [tenant |-> setup.tenant, cache |-> cache, status |-> status,
         before |-> t.before, after |-> t.after, stages |-> t.stages, usage |-> usage]
  BY DEF EventOf, Event
<1>2. QED BY <1>1 DEF Served, Accountable

LEMMA RecordIs ==
    ASSUME NEW event, Record(event)
    PROVE  (setup.metrics /\ Logged(event)) \/ (~setup.metrics /\ UNCHANGED <<totals, log>>)
BY DEF Record, Logged, Unrecorded

LEMMA LogGrows ==
    ASSUME NEW S, log \in Seq(S), life \in 0..Len(log), NEW event \in S, log' = Append(log, event)
    PROVE  log' \in Seq(S) /\ life \in 0..Len(log') /\ Len(log') = Len(log) + 1
BY AppendProperties, LenProperties

\* Every usage read is counts that are natural, or none.
LEMMA UsageIs ==
    ASSUME setup \in Setups, NEW answer \in setup.usages
    PROVE  /\ Usage(setup.dialect, answer) \in Usages \union {NoUsage}
           /\ Clamped(answer.input) \in Nat
           /\ Usage(setup.dialect, answer) = NoUsage => Clamped(answer.input) = 0
           /\ Usage(setup.dialect, answer) # NoUsage =>
                 Usage(setup.dialect, answer).input = Clamped(answer.input)
<1>1. /\ answer.input \in Int /\ answer.output \in Int /\ answer.read \in Int /\ answer.write \in Int
      /\ answer.shape # Shape(setup.dialect) => answer.input = 0
      /\ setup.dialect \in Dialects
  BY SetupIs
<1>2. \A n \in Int : Clamped(n) \in Nat
  BY DEF Clamped
<1>3. CASE answer.shape # Shape(setup.dialect)
  <2>1. Usage(setup.dialect, answer) = NoUsage
    BY <1>3 DEF Usage
  <2>2. QED BY <1>1, <1>3, <2>1 DEF Clamped
<1>4. CASE answer.shape = Shape(setup.dialect)
  <2> DEFINE input == Clamped(answer.input)
             write == IF setup.dialect = "anthropic" THEN Clamped(answer.write) ELSE 0
             usage == [input |-> input, output |-> Clamped(answer.output),
                       read |-> Clamped(answer.read), write |-> write]
  <2>1. Usage(setup.dialect, answer) = usage
    BY <1>1, <1>4 DEF Usage, Dialects
  <2>2. usage \in Usages /\ input \in Nat
    BY <1>1, <1>2 DEF Usages
  <2>3. usage.input = input
    OBVIOUS
  <2> HIDE DEF usage
  <2>4. usage # NoUsage
    BY <2>2, UsageAssumption
  <2>5. QED BY <2>1, <2>2, <2>3, <2>4
<1>5. QED BY <1>3, <1>4

\* A message is said: what comes of it is in the memory.
LEMMA SaysIs ==
    ASSUME IInv, NEW item \in setup.asks, Says(item)
    PROVE  /\ turn = Idle /\ Append(history, item) \in Conversations /\ item \in Items
           /\ turns' \in 0..MaxTurns /\ Sound(graph')
<1>1. setup \in Setups /\ history \in Conversations /\ Sound(graph) /\ turns \in 0..MaxTurns
  BY DEF IInv
<1>2. item \in Items
  BY <1>1, SetupIs
<1>3. Append(history, item) \in Conversations
  BY <1>1, <1>2, AppendProperties DEF Conversations
<1>4. turns' \in 0..MaxTurns
  BY <1>1, BoundAssumption DEF Says
<1>5. Sound(graph')
  <2> DEFINE body == Body(Append(history, item))
             canonical == Parsed(setup.dialect, body, setup.structured)
  <2>1. graph' = IF canonical = Unread THEN graph ELSE Remembered(canonical)
    BY DEF Says, GraphAfter
  <2>2. body \in Bodies
    BY <1>1, <1>3, BodyIs
  <2>3. canonical # Unread => canonical \in Requests
    <3> HIDE DEF body
    <3>1. canonical # Unread => Reads(canonical, setup.dialect, body, setup.structured)
      BY <2>2, ParsedIs
    <3>2. QED BY <3>1 DEF Reads
  <2> HIDE DEF canonical
  <2>4. canonical # Unread => Sound(Remembered(canonical))
    BY <1>1, <2>3, RememberedSound
  <2>5. QED BY <1>1, <2>1, <2>4
<1>6. QED BY <1>2, <1>3, <1>4, <1>5 DEF Says

\* A replay is of a turn that was prepared, and logs no usage.
LEMMA ReplayIs ==
    ASSUME IInv, NEW t, Accountable(t, setup), NEW k, ReplayedFor(t, k)
    PROVE  \E event \in Served(setup) : event.usage = NoUsage /\ Record(event)
<1> DEFINE cache == IF k = t.key THEN "hit" ELSE "similar"
           event == EventOf(t, cache, 200, NoUsage)
<1>1. Record(event)
  BY DEF ReplayedFor
<1>2. cache \in {"hit", "similar", "miss", "off"}
  OBVIOUS
<1> HIDE DEF cache
<1>3. event \in Served(setup) /\ event.usage = NoUsage
  BY <1>2, EventIs
<1> HIDE DEF event
<1>4. QED BY <1>1, <1>3

\* What the steps of the engine log: nothing, or the event of a turn, with the
\* usage that is charged.
Bills(event, more) == more = IF event.usage = NoUsage THEN 0 ELSE event.usage.input

LEMMA AnswerIs ==
    ASSUME IInv, Answer
    PROVE  /\ turn' = Idle /\ history' \in Conversations
           /\ \A k \in DOMAIN stored' : stored'[k] \in Items
           /\ UNCHANGED <<setup, graph, life, turns, restarts>>
           /\ \/ UNCHANGED <<totals, log, charged>>
              \/ \E event \in Served(setup), more \in Nat :
                    Logged(event) /\ charged' = charged + more /\ Bills(event, more)
<1>1. PICK reply \in setup.replies, answer \in setup.usages :
        /\ Done
        /\ history' = Append(turn.asked.items, reply)
        /\ IF turn.stream
           THEN Unrecorded /\ UNCHANGED <<stored, charged>>
           ELSE /\ Record(EventOf(turn, CacheState(turn), 200, Usage(setup.dialect, answer)))
                /\ Charge(answer)
                /\ stored' = IF turn.key = Unread THEN stored
                             ELSE [k \in DOMAIN stored \union {turn.key} |->
                                      IF k = turn.key THEN reply ELSE stored[k]]
  BY DEF Answer
<1>2. /\ turn # Idle /\ turn' = Idle /\ UNCHANGED <<setup, graph, life, turns, restarts>>
  BY <1>1 DEF Done
<1>3. /\ setup \in Setups /\ Accountable(turn, setup) /\ turn.asked.items \in Seq(Items)
      /\ \A k \in DOMAIN stored : stored[k] \in Items
  BY <1>2 DEF IInv, Accountable, Conversations
<1>4. reply \in Items
  BY <1>3, SetupIs
<1>5. history' \in Conversations
  BY <1>1, <1>3, <1>4, AppendProperties DEF Conversations
<1>6. \A k \in DOMAIN stored' : stored'[k] \in Items
  <2>1. CASE stored' = stored
    BY <1>3, <2>1
  <2>2. CASE stored' = [k \in DOMAIN stored \union {turn.key} |->
                          IF k = turn.key THEN reply ELSE stored[k]]
    BY <1>3, <1>4, <2>2
  <2>3. QED BY <1>1, <2>1, <2>2
<1>7. CASE turn.stream
  BY <1>1, <1>2, <1>5, <1>6, <1>7 DEF Unrecorded
<1>8. CASE ~turn.stream
  <2> DEFINE usage == Usage(setup.dialect, answer)
             event == EventOf(turn, CacheState(turn), 200, usage)
             more == Clamped(answer.input)
  <2>1. Record(event) /\ charged' = charged + (IF setup.metrics THEN more ELSE 0)
    BY <1>1, <1>8 DEF Charge
  <2>2. CacheState(turn) \in {"hit", "similar", "miss", "off"}
    BY DEF CacheState
  <2>3. /\ usage \in Usages \union {NoUsage} /\ more \in Nat
        /\ usage = NoUsage => more = 0
        /\ usage # NoUsage => usage.input = more
    BY <1>3, UsageIs
  <2> HIDE DEF usage, more
  <2>4. event \in Served(setup) /\ event.usage = usage
    BY <1>3, <2>2, <2>3, EventIs
  <2> HIDE DEF event
  <2>5. Bills(event, more)
    BY <2>3, <2>4 DEF Bills
  <2>6. CASE setup.metrics
    BY <1>2, <1>5, <1>6, <2>1, <2>3, <2>4, <2>5, <2>6, RecordIs
  <2>7. CASE ~setup.metrics
    <3>1. charged \in Nat
      BY DEF IInv
    <3>2. charged' = charged /\ UNCHANGED <<totals, log>>
      BY <2>1, <2>7, <3>1, RecordIs
    <3>3. QED BY <1>2, <1>5, <1>6, <3>2
  <2>8. QED BY <2>6, <2>7
<1>9. QED BY <1>7, <1>8

LEMMA RefuseIs ==
    ASSUME IInv, Refuse
    PROVE  /\ turn' = Idle
           /\ UNCHANGED <<setup, history, graph, stored, life, turns, restarts, charged>>
           /\ \/ UNCHANGED <<totals, log>>
              \/ \E event \in Served(setup) : Logged(event) /\ event.usage = NoUsage
<1>1. /\ turn # Idle /\ turn' = Idle
      /\ UNCHANGED <<setup, history, graph, stored, life, turns, restarts, charged>>
  BY DEF Refuse, Done
<1>2. Accountable(turn, setup)
  BY <1>1 DEF IInv
<1>3. CASE turn.stream
  BY <1>1, <1>3 DEF Refuse, Unrecorded
<1>4. CASE ~turn.stream
  <2> DEFINE event == EventOf(turn, CacheState(turn), 500, NoUsage)
  <2>1. Record(event)
    BY <1>4 DEF Refuse
  <2>2. CacheState(turn) \in {"hit", "similar", "miss", "off"}
    BY DEF CacheState
  <2>3. event \in Served(setup) /\ event.usage = NoUsage
    BY <1>2, <2>2, EventIs
  <2> HIDE DEF event
  <2>4. QED BY <1>1, <2>1, <2>3, RecordIs
<1>5. QED BY <1>3, <1>4

\* What a step does to the turn, and to the one before it.
TurnStep ==
    /\ setup' = setup
    /\ \/ UNCHANGED <<turn, last>>
       \/ turn' = Idle /\ last' \in {last, turn, Idle}
       \/ /\ UNCHANGED last
          /\ \E items \in Conversations : \E stream : turn' = Prepared(Body(items), stream)

\* What a step does to the accounts.
LogStep ==
    \/ UNCHANGED <<totals, log, life, charged>>
    \/ /\ life' = life
       /\ \E event \in Served(setup), more \in Nat :
             Logged(event) /\ charged' = charged + more /\ Bills(event, more)
    \/ totals' = NoTotals /\ life' = Len(log) /\ UNCHANGED <<log, charged>>

LEMMA InitHolds == Init => IInv
<1> SUFFICES ASSUME Init PROVE IInv
  OBVIOUS
<1>1. /\ setup \in Setups /\ turn = Idle /\ graph = NoGraph /\ history = << >> /\ log = << >>
      /\ DOMAIN stored = {} /\ life = 0 /\ charged = 0 /\ turns = 0 /\ restarts = 0
  BY DEF Init
<1>2. history \in Conversations /\ log \in Seq(Served(setup)) /\ Len(log) = 0
  BY <1>1, EmptySeq DEF Conversations
<1>3. Sound(graph)
  BY <1>1, NoGraphSound
<1>4. turns \in 0..MaxTurns /\ restarts \in 0..MaxRestarts
  BY <1>1, BoundAssumption
<1>5. QED BY <1>1, <1>2, <1>3, <1>4 DEF IInv

\* The log and the counters of billing stay of their types.
LEMMA LogStays ==
    ASSUME IInv, LogStep
    PROVE  log' \in Seq(Served(setup)) /\ life' \in 0..Len(log') /\ charged' \in Nat
<1>1. log \in Seq(Served(setup)) /\ life \in 0..Len(log) /\ charged \in Nat
  BY DEF IInv
<1>2. CASE UNCHANGED <<totals, log, life, charged>>
  BY <1>1, <1>2
<1>3. CASE /\ life' = life
           /\ \E event \in Served(setup), more \in Nat :
                 Logged(event) /\ charged' = charged + more /\ Bills(event, more)
  <2>1. PICK event \in Served(setup), more \in Nat : Logged(event) /\ charged' = charged + more
    BY <1>3
  <2>2. log' \in Seq(Served(setup)) /\ life \in 0..Len(log')
    BY <1>1, <2>1, LogGrows DEF Logged
  <2>3. QED BY <1>1, <1>3, <2>1, <2>2
<1>4. CASE totals' = NoTotals /\ life' = Len(log) /\ UNCHANGED <<log, charged>>
  BY <1>1, <1>4, LenProperties
<1>5. QED BY <1>2, <1>3, <1>4 DEF LogStep

LEMMA ForwardIs ==
    ASSUME IInv, Forward
    PROVE  IInv' /\ TurnStep /\ LogStep
<1>1. PICK item \in setup.asks, stream \in setup.streams :
        /\ Says(item)
        /\ turn' = Prepared(Body(Append(history, item)), stream)
        /\ UNCHANGED <<setup, history, last, stored, totals, log, life, charged, restarts>>
  BY DEF Forward
<1>2. Append(history, item) \in Conversations /\ turns' \in 0..MaxTurns /\ Sound(graph')
  BY <1>1, SaysIs
<1>3. Accountable(turn', setup)
  BY <1>1, <1>2, PreparedAccountable DEF IInv
<1>4. LogStep
  BY <1>1 DEF LogStep
<1>5. IInv'
  BY <1>1, <1>2, <1>3 DEF IInv
<1>6. TurnStep
  BY <1>1, <1>2 DEF TurnStep
<1>7. QED BY <1>4, <1>5, <1>6

LEMMA FromCacheIs ==
    ASSUME IInv, FromCache
    PROVE  IInv' /\ TurnStep /\ LogStep
<1>1. PICK item \in setup.asks, k \in DOMAIN stored :
        /\ Says(item)
        /\ ReplayedFor(Prepared(Body(Append(history, item)), FALSE), k)
        /\ history' = history \o <<item, stored[k]>>
        /\ UNCHANGED <<setup, turn, last, stored, life, charged, restarts>>
  BY DEF FromCache
<1>2. /\ Append(history, item) \in Conversations /\ turns' \in 0..MaxTurns /\ Sound(graph')
      /\ item \in Items
  BY <1>1, SaysIs
<1>3. Accountable(Prepared(Body(Append(history, item)), FALSE), setup)
  BY <1>2, PreparedAccountable DEF IInv
<1>4. PICK event \in Served(setup) : event.usage = NoUsage /\ Record(event)
  BY <1>1, <1>3, ReplayIs
<1>5. LogStep
  <2>1. Bills(event, 0)
    BY <1>4 DEF Bills
  <2>2. charged' = charged + 0
    BY <1>1 DEF IInv
  <2>3. QED BY <1>1, <1>4, <2>1, <2>2, RecordIs DEF LogStep
<1>6. log' \in Seq(Served(setup)) /\ life' \in 0..Len(log') /\ charged' \in Nat
  BY <1>5, LogStays
<1>7. history' \in Conversations
  <2>1. stored[k] \in Items /\ history \in Seq(Items)
    BY DEF IInv, Conversations
  <2>2. <<item, stored[k]>> \in Seq(Items)
    BY <1>2, <2>1
  <2>3. QED BY <1>1, <2>1, <2>2, ConcatProperties DEF Conversations
<1>8. IInv'
  BY <1>1, <1>2, <1>6, <1>7 DEF IInv
<1>9. TurnStep
  BY <1>1 DEF TurnStep
<1>10. QED BY <1>5, <1>8, <1>9

LEMMA AnswerKeeps ==
    ASSUME IInv, Answer
    PROVE  IInv' /\ TurnStep /\ LogStep
<1>1. /\ turn' = Idle /\ history' \in Conversations
      /\ \A k \in DOMAIN stored' : stored'[k] \in Items
      /\ UNCHANGED <<setup, graph, life, turns, restarts>>
      /\ \/ UNCHANGED <<totals, log, charged>>
         \/ \E event \in Served(setup), more \in Nat :
               Logged(event) /\ charged' = charged + more /\ Bills(event, more)
  BY AnswerIs
<1>2. LogStep
  BY <1>1 DEF LogStep
<1>3. log' \in Seq(Served(setup)) /\ life' \in 0..Len(log') /\ charged' \in Nat
  BY <1>2, LogStays
<1>4. IInv'
  BY <1>1, <1>3 DEF IInv
<1>5. last' = turn
  BY DEF Answer, Done
<1>6. QED BY <1>1, <1>2, <1>4, <1>5 DEF TurnStep

LEMMA RefuseKeeps ==
    ASSUME IInv, Refuse
    PROVE  IInv' /\ TurnStep /\ LogStep
<1>1. /\ turn' = Idle
      /\ UNCHANGED <<setup, history, graph, stored, life, turns, restarts, charged>>
      /\ \/ UNCHANGED <<totals, log>>
         \/ \E event \in Served(setup) : Logged(event) /\ event.usage = NoUsage
  BY RefuseIs
<1>2. LogStep
  <2>1. CASE UNCHANGED <<totals, log>>
    BY <1>1, <2>1 DEF LogStep
  <2>2. ASSUME NEW event \in Served(setup), Logged(event), event.usage = NoUsage
        PROVE  LogStep
    <3>1. Bills(event, 0) /\ charged' = charged + 0
      BY <1>1, <2>2 DEF Bills, IInv
    <3>2. QED BY <1>1, <2>2, <3>1 DEF LogStep
  <2>3. QED BY <1>1, <2>1, <2>2
<1>3. log' \in Seq(Served(setup)) /\ life' \in 0..Len(log') /\ charged' \in Nat
  BY <1>2, LogStays
<1>4. IInv'
  BY <1>1, <1>3 DEF IInv
<1>5. last' = turn
  BY DEF Refuse, Done
<1>6. QED BY <1>1, <1>2, <1>4, <1>5 DEF TurnStep

LEMMA StepIs ==
    ASSUME IInv, [Next]_vars
    PROVE  IInv' /\ TurnStep /\ LogStep
<1>1. CASE Forward
  BY <1>1, ForwardIs
<1>2. CASE FromCache
  BY <1>2, FromCacheIs
<1>3. CASE Answer
  BY <1>3, AnswerKeeps
<1>4. CASE Refuse
  BY <1>4, RefuseKeeps
<1>5. CASE Fail
  <2>1. /\ turn' = Idle /\ last' = turn
        /\ UNCHANGED <<setup, history, graph, stored, totals, log, life, charged, turns, restarts>>
    BY <1>5 DEF Fail, Done, Unrecorded
  <2>2. QED BY <2>1 DEF IInv, TurnStep, LogStep
<1>6. CASE Renew
  <2>1. /\ turn' = Idle /\ last' = Idle /\ history' = << >>
        /\ UNCHANGED <<setup, turn, graph, stored, totals, log, life, charged, turns, restarts>>
    BY <1>6 DEF Renew
  <2>2. history' \in Conversations
    BY <2>1, EmptySeq DEF Conversations
  <2>3. QED BY <2>1, <2>2 DEF IInv, TurnStep, LogStep
<1>7. CASE Restart
  <2>1. /\ turn' = Idle /\ last' = Idle /\ graph' = NoGraph /\ totals' = NoTotals
        /\ life' = Len(log) /\ restarts < MaxRestarts /\ restarts' = restarts + 1
        /\ UNCHANGED <<setup, history, stored, log, charged, turns>>
    BY <1>7 DEF Restart
  <2>2. LogStep
    BY <2>1 DEF LogStep
  <2>3. log' \in Seq(Served(setup)) /\ life' \in 0..Len(log') /\ charged' \in Nat
    BY <2>2, LogStays
  <2>4. restarts' \in 0..MaxRestarts /\ Sound(graph')
    BY <2>1, NoGraphSound, BoundAssumption DEF IInv
  <2>5. IInv'
    BY <2>1, <2>3, <2>4 DEF IInv
  <2>6. QED BY <2>1, <2>2, <2>5 DEF TurnStep
<1>8. CASE UNCHANGED vars
  BY <1>8 DEF vars, IInv, TurnStep, LogStep
<1>9. QED BY <1>1, <1>2, <1>3, <1>4, <1>5, <1>6, <1>7, <1>8 DEF Next

-----------------------------------------------------------------------------
(* Types, and the accounts.                                                *)

LEMMA IInvTypes == IInv => TypeOK
<1> SUFFICES ASSUME IInv PROVE TypeOK
  OBVIOUS
<1>1. /\ IsInjective(graph.nodes)
      /\ \A i \in DOMAIN graph.edges :
            {graph.edges[i].src, graph.edges[i].dst} \subseteq ToSet(graph.nodes)
  BY DEF IInv, Sound
<1>2. ASSUME NEW i \in DOMAIN log, NEW j \in DOMAIN log[i].stages
      PROVE  log[i].stages[j].ok \in Verdicts
  <2>1. log \in Seq(Served(setup))
    BY DEF IInv
  <2>2. log[i] \in Served(setup)
    BY <1>2, <2>1, ElementOfSeq, LenProperties
  <2>3. log[i].stages \in Seq(StagesOf(Sizes(setup)))
    BY <2>2 DEF Served
  <2>4. log[i].stages[j] \in StagesOf(Sizes(setup))
    BY <1>2, <2>3, ElementOfSeq, LenProperties
  <2>5. QED BY <2>4 DEF StagesOf, Verdicts
<1>3. QED BY <1>1, <1>2 DEF IInv, TypeOK

\* The invariant holds in every state of the engine.
THEOREM InductiveInvariant == Spec => []IInv
<1>1. Init => IInv
  BY InitHolds
<1>2. IInv /\ [Next]_vars => IInv'
  BY StepIs
<1>3. QED BY <1>1, <1>2, PTL DEF Spec

\* The memory never holds a text twice, its edges join texts it holds, every
\* logged verdict is one, and the database holds what earlier lives wrote.
THEOREM TypeCorrect == Spec => []TypeOK
<1>1. Spec => []IInv
  BY InductiveInvariant
<1>2. QED BY <1>1, IInvTypes, PTL

\* What an event bills.
Billed(event) == IF event.usage = NoUsage THEN 0 ELSE event.usage.input
BilledBy(events) == [i \in DOMAIN events |-> Billed(events[i])]

LEMMA BilledAppend ==
    ASSUME NEW s, NEW events \in Seq(Served(s)), NEW event \in Served(s)
    PROVE  /\ BilledBy(events) \in Seq(Int) /\ Billed(event) \in Int
           /\ BilledBy(Append(events, event)) = Append(BilledBy(events), Billed(event))
<1>1. \A e \in Served(s) : Billed(e) \in Int
  BY DEF Served, Billed, Usages
<1>2. \A x \in Seq(Served(s)) : BilledBy(x) \in Seq(Int) /\ Len(BilledBy(x)) = Len(x)
  <2> SUFFICES ASSUME NEW x \in Seq(Served(s))
               PROVE  BilledBy(x) \in Seq(Int) /\ Len(BilledBy(x)) = Len(x)
    OBVIOUS
  <2>1. BilledBy(x) \in [DOMAIN x -> Int]
    BY <1>1, ElementOfSeq, LenProperties DEF BilledBy
  <2>2. QED BY <2>1, AsSeq
<1> DEFINE longer == Append(events, event)
           column == Append(BilledBy(events), Billed(event))
<1>3. /\ longer \in Seq(Served(s)) /\ Len(longer) = Len(events) + 1 /\ Len(events) \in Nat
      /\ \A i \in 1..Len(events) : longer[i] = events[i]
      /\ longer[Len(events) + 1] = event
  BY AppendProperties, LenProperties
<1>4. /\ BilledBy(events) \in Seq(Int) /\ Len(BilledBy(events)) = Len(events)
      /\ BilledBy(longer) \in Seq(Int) /\ Len(BilledBy(longer)) = Len(longer)
      /\ Billed(event) \in Int
  <2> HIDE DEF longer
  <2>1. QED BY <1>1, <1>2, <1>3
<1>5. /\ column \in Seq(Int) /\ Len(column) = Len(events) + 1
      /\ \A i \in 1..Len(events) : column[i] = BilledBy(events)[i]
      /\ column[Len(events) + 1] = Billed(event)
  <2> DEFINE billed == BilledBy(events)
             this == Billed(event)
  <2>1. billed \in Seq(Int) /\ this \in Int /\ Len(billed) = Len(events)
    BY <1>4
  <2> HIDE DEF billed, this
  <2>2. /\ Append(billed, this) \in Seq(Int) /\ Len(Append(billed, this)) = Len(billed) + 1
        /\ \A i \in 1..Len(billed) : Append(billed, this)[i] = billed[i]
        /\ Append(billed, this)[Len(billed) + 1] = this
    BY <2>1, AppendProperties
  <2>3. QED BY <2>1, <2>2 DEF billed, this
<1>6. DOMAIN longer = 1..Len(events) + 1 /\ DOMAIN events = 1..Len(events)
  <2> HIDE DEF longer
  <2>1. QED BY <1>3, LenProperties
<1> HIDE DEF longer, column
<1>7. ASSUME NEW i \in 1..Len(events) + 1
      PROVE  BilledBy(longer)[i] = column[i]
  <2>1. BilledBy(longer)[i] = Billed(longer[i])
    BY <1>6 DEF BilledBy
  <2>2. CASE i = Len(events) + 1
    BY <1>3, <1>5, <2>1, <2>2
  <2>3. CASE i \in 1..Len(events)
    <3>1. BilledBy(events)[i] = Billed(events[i])
      BY <1>6, <2>3 DEF BilledBy
    <3>2. QED BY <1>3, <1>5, <2>1, <2>3, <3>1
  <2>4. i = Len(events) + 1 \/ i \in 1..Len(events)
    BY <1>3
  <2>5. QED BY <2>2, <2>3, <2>4
<1>8. BilledBy(longer) = column
  BY <1>3, <1>4, <1>5, <1>7, SeqEqual
<1>9. QED BY <1>4, <1>8 DEF longer, column

\* What providers charged is what the events of the database say, whatever was
\* replayed, refused, streamed, or started again.
THEOREM BilledOnceHolds == Spec => []BilledOnce
<1>1. BilledOnce <=> charged = Total(BilledBy(log))
  BY DEF BilledOnce, BilledBy, Billed
<1>2. BilledOnce' <=> charged' = Total(BilledBy(log'))
  BY DEF BilledOnce, BilledBy, Billed
<1>3. Init => BilledOnce
  <2>1. BilledBy(<< >>) = << >>
    BY DEF BilledBy
  <2>2. QED BY <1>1, <2>1, TotalEmpty DEF Init
<1>4. IInv /\ BilledOnce /\ [Next]_vars => BilledOnce'
  <2> SUFFICES ASSUME IInv, BilledOnce, [Next]_vars PROVE BilledOnce'
    OBVIOUS
  <2>1. LogStep /\ log \in Seq(Served(setup))
    BY StepIs DEF IInv
  <2>2. CASE UNCHANGED <<log, charged>>
    BY <2>2 DEF BilledOnce
  <2>3. ASSUME NEW event \in Served(setup), NEW more \in Nat,
               Logged(event), charged' = charged + more, Bills(event, more)
        PROVE  BilledOnce'
    <3>1. /\ BilledBy(log) \in Seq(Int) /\ Billed(event) \in Int
          /\ BilledBy(log') = Append(BilledBy(log), Billed(event))
      BY <2>1, <2>3, BilledAppend DEF Logged
    <3>2. Billed(event) = more
      BY <2>3 DEF Bills, Billed
    <3>3. Total(BilledBy(log')) = Total(BilledBy(log)) + more
      BY <3>1, <3>2, TotalAppend
    <3>4. QED BY <1>1, <1>2, <2>3, <3>3
  <2>4. QED BY <2>1, <2>2, <2>3 DEF LogStep
<1>5. QED BY <1>3, <1>4, InductiveInvariant, PTL DEF Spec

\* A tokenizer counts, and so does len.
CountsNatural == \A text \in Texts : Bpe(text) \in Nat /\ Chars(text) \in Nat

LEMMA SizesAreNatural ==
    ASSUME CountsNatural, NEW s
    PROVE  Sizes(s) \subseteq Nat
<1>1. ASSUME NEW text \in Texts PROVE Tokens(text, s) \in Nat
  <2>1. Bpe(text) \in Nat /\ Chars(text) \in Nat /\ CharsPerToken \in Nat \ {0}
    BY TextAssumption DEF CountsNatural
  <2>2. \A n \in Nat : \A c \in Nat \ {0} : (n + c - 1) \div c \in Nat
    OBVIOUS
  <2>3. HeuristicTokens(text) \in Nat
    BY <2>1, <2>2 DEF HeuristicTokens
  <2>4. QED BY <2>1, <2>3 DEF Tokens
<1>2. ASSUME NEW r \in Requests PROVE Size(r, s) \in Nat
  BY <1>1, RequestTextIs DEF Size
<1>3. QED BY <1>2 DEF Sizes

LEMMA ServedRows ==
    ASSUME CountsNatural, NEW s
    PROVE  Served(s) \subseteq Rows({s.tenant})
<1>1. Sizes(s) \union {0} \subseteq Int
  BY SizesAreNatural
<1>2. StagesOf(Sizes(s)) \subseteq StageSet
  BY <1>1 DEF StagesOf, StageSet
<1>3. Seq(StagesOf(Sizes(s))) \subseteq Seq(StageSet)
  <2> SUFFICES ASSUME NEW x \in Seq(StagesOf(Sizes(s))) PROVE x \in Seq(StageSet)
    OBVIOUS
  <2>1. x \in [DOMAIN x -> StageSet]
    BY <1>2, LenProperties, ElementOfSeq
  <2>2. QED BY <2>1, LenProperties
<1>4. QED BY <1>1, <1>3 DEF Served, Rows

\* The rows of this life of the process.
LEMMA RowsOfThisLife ==
    ASSUME NEW S, log \in Seq(S), life \in 0..Len(log), life' = life,
           NEW event \in S, log' = Append(log, event)
    PROVE  /\ SubSeq(log, life + 1, Len(log)) \in Seq(S)
           /\ SubSeq(log', life' + 1, Len(log')) =
                 Append(SubSeq(log, life + 1, Len(log)), event)
<1> DEFINE a == SubSeq(log, life + 1, Len(log))
           longer == Append(log, event)
           b == SubSeq(longer, life + 1, Len(longer))
<1>1. /\ longer \in Seq(S) /\ Len(longer) = Len(log) + 1 /\ Len(log) \in Nat
      /\ \A i \in 1..Len(log) : longer[i] = log[i]
      /\ longer[Len(log) + 1] = event
  BY AppendProperties, LenProperties
<1>2. a \in Seq(S) /\ Len(a) = Len(log) - life /\ \A i \in 1..Len(a) : a[i] = log[life + i]
  BY <1>1, SubSeqProperties
<1> HIDE DEF longer
<1>3. b \in Seq(S) /\ Len(b) = Len(log) + 1 - life /\ \A i \in 1..Len(b) : b[i] = longer[life + i]
  BY <1>1, SubSeqProperties
<1> HIDE DEF a, b
<1>4. /\ Append(a, event) \in Seq(S) /\ Len(Append(a, event)) = Len(a) + 1
      /\ \A i \in 1..Len(a) : Append(a, event)[i] = a[i]
      /\ Append(a, event)[Len(a) + 1] = event
  BY <1>2, AppendProperties
<1>5. ASSUME NEW i \in 1..Len(b) PROVE b[i] = Append(a, event)[i]
  <2>1. CASE i \in 1..Len(a)
    <3>1. life + i \in 1..Len(log)
      BY <1>1, <1>2, <2>1
    <3>2. QED BY <1>1, <1>2, <1>3, <1>4, <2>1, <3>1
  <2>2. CASE i = Len(a) + 1
    <3>1. life + i = Len(log) + 1
      BY <1>1, <1>2, <2>2
    <3>2. QED BY <1>1, <1>3, <1>4, <2>2, <3>1
  <2>3. i \in 1..Len(a) \/ i = Len(a) + 1
    BY <1>1, <1>2, <1>3
  <2>4. QED BY <2>1, <2>2, <2>3
<1>6. b = Append(a, event)
  <2>1. Len(b) = Len(Append(a, event))
    BY <1>1, <1>2, <1>3, <1>4
  <2>2. QED BY <1>3, <1>4, <1>5, <2>1, SeqEqual
<1>7. QED BY <1>2, <1>6 DEF a, b, longer

LEMMA NoRows ==
    ASSUME NEW S, NEW rows \in Seq(S)
    PROVE  SubSeq(rows, Len(rows) + 1, Len(rows)) = << >>
<1>1. Len(SubSeq(rows, Len(rows) + 1, Len(rows))) = 0 /\ SubSeq(rows, Len(rows) + 1, Len(rows)) \in Seq(S)
  BY SubSeqProperties, LenProperties
<1>2. QED BY <1>1, EmptySeq

\* The totals the process keeps are what the database says of the rows of this
\* life, per stage and per tenant, however the rows came about.
THEOREM SinksAgreeHolds ==
    ASSUME CountsNatural
    PROVE  Spec => []SinksAgree
<1>1. Init => SinksAgree
  <2> SUFFICES ASSUME Init PROVE SinksAgree
    OBVIOUS
  <2>1. log = << >> /\ life = 0 /\ totals = NoTotals
    BY DEF Init
  <2>2. log \in Seq({}) /\ Len(log) = 0
    BY <2>1, EmptySeq
  <2>3. SubSeq(log, life + 1, Len(log)) = << >>
    BY <2>1, <2>2, NoRows
  <2>4. QED BY <2>1, <2>3, SnapshotEmpty DEF SinksAgree
<1>2. IInv /\ SinksAgree /\ [Next]_vars => SinksAgree'
  <2> SUFFICES ASSUME IInv, SinksAgree, [Next]_vars PROVE SinksAgree'
    OBVIOUS
  <2>1. LogStep /\ log \in Seq(Served(setup)) /\ life \in 0..Len(log)
    BY StepIs DEF IInv
  <2>2. CASE UNCHANGED <<totals, log, life, charged>>
    BY <2>2 DEF SinksAgree
  <2>3. ASSUME NEW event \in Served(setup), Logged(event), life' = life
        PROVE  SinksAgree'
    <3> DEFINE T == {setup.tenant}
               rows == SubSeq(log, life + 1, Len(log))
    <3>1. rows \in Seq(Served(setup)) /\ SubSeq(log', life' + 1, Len(log')) = Append(rows, event)
      BY <2>1, <2>3, RowsOfThisLife DEF Logged
    <3> HIDE DEF rows
    <3>2. rows \in Seq(Rows(T)) /\ event \in Rows(T)
      <4>1. \A x \in Served(setup) : x \in Rows(T)
        BY ServedRows
      <4>2. rows \in [DOMAIN rows -> Rows(T)]
        BY <3>1, <4>1, LenProperties, ElementOfSeq
      <4> HIDE DEF T
      <4>3. rows \in Seq(Rows(T))
        BY <3>1, <4>2, AsSeq
      <4>4. QED BY <2>3, <4>1, <4>3 DEF T
    <3>3. Snapshot(Append(rows, event)) = Folded(Snapshot(rows), event)
      BY <3>2, SnapshotAppend
    <3>4. totals = Snapshot(rows)
      BY DEF SinksAgree, rows
    <3>5. QED BY <2>3, <3>1, <3>3, <3>4 DEF SinksAgree, Logged
  <2>4. CASE totals' = NoTotals /\ life' = Len(log) /\ UNCHANGED <<log, charged>>
    <3>1. SubSeq(log, Len(log) + 1, Len(log)) = << >>
      BY <2>1, NoRows
    <3>2. QED BY <2>4, <3>1, SnapshotEmpty DEF SinksAgree
  <2>5. QED BY <2>1, <2>2, <2>3, <2>4 DEF LogStep
<1>3. QED BY <1>1, <1>2, InductiveInvariant, PTL DEF Spec

-----------------------------------------------------------------------------
(* What is forwarded: a property of the turn holds if it holds of every    *)
(* turn as it is prepared, for it does not change until its reply.         *)

LEMMA PreparedAccounts ==
    ASSUME CountsNatural, setup \in Setups, Sound(graph), NEW items \in Conversations, NEW stream
    PROVE  LET t == Prepared(Body(items), stream)
           IN  Account(t.stages, t.before, t.after) /\ (~Compacted(t) => t.after <= t.before)
<1> DEFINE t == Prepared(Body(items), stream)
<1>1. Account(t.stages, t.before, t.after)
  BY PreparedAccountable DEF Accountable
<1>2. SUFFICES ASSUME ~Compacted(t) PROVE t.after <= t.before
  BY <1>1
<1>3. CASE t = Passed(Body(items), stream)
  <2>1. t.before = 0 /\ t.after = 0
    BY <1>3 DEF Passed
  <2>2. QED BY <2>1
<1>4. ASSUME NEW canonical, NEW working, NEW out, PreparedFrom(t, items, canonical, working, out)
      PROVE  t.after <= t.before
  <2> HIDE DEF t
  <2>1. /\ canonical \in Requests /\ working \in Requests
        /\ Emits(working, Body(items), out)
        /\ t = Optimized(Body(items), t.stream, canonical, working, out)
    BY <1>4 DEF PreparedFrom
  <2>2. /\ t.canonical = canonical /\ t.working = working
        /\ t.before = Size(canonical, setup) /\ t.after = Size(out.request, setup)
    BY <2>1 DEF Optimized
  <2>3. /\ out.request \in Requests
        /\ \/ Size(out.request, setup) = Size(working, setup)
           \/ ~(Size(out.request, setup) > Size(working, setup))
    BY <2>1, EmittedIs
  <2>4. working = canonical
    BY <1>2, <2>2 DEF Compacted
  <2>5. \A r \in Requests : Size(r, setup) \in Nat
    BY SizesAreNatural DEF Sizes
  <2>6. QED BY <2>1, <2>2, <2>3, <2>4, <2>5
<1>5. QED BY <1>3, <1>4, PreparedIs

\* The stages of a turn account for all of its reduction, and compression never
\* makes a turn cost more.
THEOREM AccountsHolds ==
    ASSUME CountsNatural
    PROVE  Spec => []Accounts
<1>1. Init => Accounts
  BY DEF Init, Accounts, Sending
<1>2. IInv /\ Accounts /\ [Next]_vars => Accounts'
  <2> SUFFICES ASSUME IInv, Accounts, [Next]_vars PROVE Accounts'
    OBVIOUS
  <2>1. TurnStep /\ setup \in Setups /\ Sound(graph)
    BY StepIs DEF IInv
  <2>2. CASE UNCHANGED <<turn, last>>
    BY <2>2 DEF Accounts, Sending, Compacted
  <2>3. CASE turn' = Idle
    BY <2>3 DEF Accounts, Sending
  <2>4. ASSUME NEW items \in Conversations, NEW stream, turn' = Prepared(Body(items), stream)
        PROVE  Accounts'
    BY <2>1, <2>4, PreparedAccounts DEF Accounts, Sending, Compacted
  <2>5. QED BY <2>1, <2>2, <2>3, <2>4 DEF TurnStep
<1>3. QED BY <1>1, <1>2, InductiveInvariant, PTL DEF Spec

-----------------------------------------------------------------------------
(* The items of a body that is sent.                                       *)

\* A message as it goes out: of blocks only the marker of the last may be new.
SameButMarker(a, b, marked) ==
    /\ a.role = b.role
    /\ a.content.kind = b.content.kind /\ a.content.text = b.content.text
    /\ Len(a.content.blocks) = Len(b.content.blocks)
    /\ \A j \in DOMAIN a.content.blocks :
          LET x == a.content.blocks[j]
              y == b.content.blocks[j]
          IN  /\ x.type = y.type /\ x.id = y.id /\ x.text = y.text /\ x.payload = y.payload
              /\ y.cached = IF marked /\ a.content.kind = "blocks" /\ j = Len(a.content.blocks)
                            THEN TRUE ELSE x.cached

Holding(item, blocks) == [item EXCEPT !.content.blocks = blocks]

LEMMA WithContent ==
    ASSUME NEW item \in Items, NEW blocks \in Seq(Blocks), item.content.kind = "blocks",
           NEW x, x = Holding(item, blocks)
    PROVE  /\ x \in Items /\ x.role = item.role /\ x.content.kind = item.content.kind
           /\ x.content.text = item.content.text /\ x.content.blocks = blocks
<1> DEFINE c == item.content
           d == [c EXCEPT !.blocks = blocks]
<1>1. item.role \in STRING /\ c \in Contents /\ item = [role |-> item.role, content |-> c]
  BY ItemFields
<1>2. x = [role |-> item.role, content |-> d]
  BY <1>1 DEF Holding
<1> HIDE DEF c
<1>3. c = [kind |-> c.kind, text |-> c.text, blocks |-> c.blocks] /\ c.text \in Texts
  BY <1>1, ContentFields
<1>4. d = [kind |-> c.kind, text |-> c.text, blocks |-> blocks]
  BY <1>3
<1>5. c.kind = "blocks" /\ c.text = << >>
  BY <1>1, ContentFields DEF c
<1>6. d \in Contents
  BY <1>3, <1>4, <1>5 DEF Contents
<1> HIDE DEF d
<1>7. x \in Items
  BY <1>1, <1>2, <1>6 DEF Items
<1>8. QED BY <1>2, <1>4, <1>7 DEF c

LEMMA MarkedIs ==
    ASSUME NEW item \in Items
    PROVE  Marked(item) \in Items /\ SameButMarker(item, Marked(item), TRUE)
<1> DEFINE blocks == item.content.blocks
           n == Len(blocks)
           x == Marked(item)
<1>1. item.content \in Contents /\ blocks \in Seq(Blocks) /\ n \in Nat /\ DOMAIN blocks = 1..n
  BY ItemFields, ContentFields, LenProperties
<1>2. CASE item.content.kind = "blocks" /\ blocks # << >>
  <2> DEFINE marked == [blocks EXCEPT ![n].cached = TRUE]
  <2>1. x = [item EXCEPT !.content.blocks[n].cached = TRUE]
    BY <1>2 DEF Marked
  <2>2. x = Holding(item, marked)
    BY <2>1 DEF Holding
  <2>3. n \in 1..n
    BY <1>1, <1>2, EmptySeq
  <2>4. \A j \in 1..n : blocks[j] \in Blocks
    BY <1>1, ElementOfSeq
  <2>5. marked = [j \in 1..n |-> IF j = n THEN [blocks[j] EXCEPT !.cached = TRUE] ELSE blocks[j]]
    <3> HIDE DEF blocks, n
    <3>1. QED BY <1>1
  <2> HIDE DEF blocks, n
  <2>6. \A j \in 1..n : [blocks[j] EXCEPT !.cached = TRUE] \in Blocks
    BY <2>4 DEF Blocks
  <2>7. \A j \in 1..n :
           /\ marked[j].type = blocks[j].type /\ marked[j].id = blocks[j].id
           /\ marked[j].text = blocks[j].text /\ marked[j].payload = blocks[j].payload
           /\ marked[j].cached = IF j = n THEN TRUE ELSE blocks[j].cached
    BY <2>4, <2>5 DEF Blocks
  <2>8. marked \in [1..n -> Blocks]
    BY <2>4, <2>5, <2>6
  <2> HIDE DEF marked, x
  <2>9. marked \in Seq(Blocks) /\ Len(marked) = n /\ DOMAIN marked = 1..n
    BY <1>1, <2>8, LenProperties
  <2>10. /\ x \in Items /\ x.role = item.role /\ x.content.kind = item.content.kind
         /\ x.content.text = item.content.text /\ x.content.blocks = marked
    BY <1>2, <2>2, <2>9, WithContent
  <2>11. SameButMarker(item, x, TRUE)
    BY <1>1, <1>2, <2>7, <2>9, <2>10 DEF SameButMarker, blocks, n
  <2>12. QED BY <2>10, <2>11 DEF x
<1>3. CASE ~(item.content.kind = "blocks" /\ blocks # << >>)
  <2>1. x = item
    BY <1>3 DEF Marked
  <2>2. item.content.kind # "blocks" \/ DOMAIN blocks = {}
    BY <1>1, <1>3, EmptySeq
  <2>3. SameButMarker(item, item, TRUE)
    <3>1. QED BY <2>2 DEF SameButMarker
  <2>4. QED BY <2>1, <2>3
<1>4. QED BY <1>2, <1>3

LEMMA SameAllText ==
    ASSUME NEW a, NEW b, NEW marked, SameButMarker(a, b, marked),
           a \in Items, b \in Items
    PROVE  AllText(a.content) = AllText(b.content) /\ IdsOf(a.content) = IdsOf(b.content)
<1>1. /\ a.content \in Contents /\ b.content \in Contents
      /\ a.content.blocks \in Seq(Blocks) /\ b.content.blocks \in Seq(Blocks)
  BY ItemFields, ContentFields
<1>2. DOMAIN a.content.blocks = DOMAIN b.content.blocks
  BY <1>1, LenProperties DEF SameButMarker
<1>3. BlockTexts(a.content.blocks) = BlockTexts(b.content.blocks)
  BY <1>2 DEF SameButMarker, BlockTexts
<1>4. AllText(a.content) = AllText(b.content)
  <2>1. a.content.text = b.content.text
    BY DEF SameButMarker
  <2>2. QED BY <1>1, <1>3, <2>1, AllTextIs
<1>5. [j \in DOMAIN a.content.blocks |-> a.content.blocks[j].id]
        = [j \in DOMAIN b.content.blocks |-> b.content.blocks[j].id]
  BY <1>2 DEF SameButMarker
<1>6. QED BY <1>4, <1>5 DEF IdsOf

LEMMA NothingIn ==
    ASSUME NEW S, NEW s \in Seq(S), ToSet(s) = {}
    PROVE  s = << >>
<1>1. s # << >> => 1 \in DOMAIN s
  BY EmptySeq, LenProperties
<1>2. 1 \in DOMAIN s => s[1] \in ToSet(s)
  BY DEF ToSet
<1>3. QED BY <1>1, <1>2

LEMMA Strings == "" \in STRING /\ "text" \in STRING /\ "user" \in STRING
BY TokenAssumption

LEMMA NoIds ==
    ASSUME NEW content \in Contents, \A j \in DOMAIN content.blocks : content.blocks[j].id = ""
    PROVE  IdsOf(content) = << >>
<1> DEFINE ids == [j \in DOMAIN content.blocks |-> content.blocks[j].id]
           places == {j \in DOMAIN ids : ids[j] # ""}
<1>1. content.blocks \in Seq(Blocks)
  BY ContentFields
<1>2. ids \in [DOMAIN content.blocks -> STRING] /\ places = {}
  BY Strings
<1>3. IdsOf(content) = Kept(ids, places)
  BY DEF IdsOf
<1> HIDE DEF ids, places
<1>4. ids \in Seq(STRING)
  BY <1>1, <1>2, AsSeq
<1>5. Kept(ids, places) \in Seq(STRING) /\ ToSet(Kept(ids, places)) = {ids[i] : i \in DOMAIN ids \intersect places}
  BY <1>4, KeptType, KeptHolds
<1>6. ToSet(Kept(ids, places)) = {}
  BY <1>2, <1>5
<1>7. QED BY <1>3, <1>5, <1>6, NothingIn

LEMMA Single ==
    ASSUME NEW S, NEW e \in S
    PROVE  <<e>> \in Seq(S) /\ Len(<<e>>) = 1 /\ DOMAIN <<e>> = {1} /\ <<e>>[1] = e
OBVIOUS

LEMMA OnlyOne == \A n \in Nat : \A i \in 1..n : n = 1 => i = 1
OBVIOUS

LEMMA SingleTexts ==
    ASSUME NEW text \in Texts, NEW block,
           block = [type |-> "text", id |-> "", text |-> text, payload |-> << >>, cached |-> TRUE]
    PROVE  /\ <<block>> \in Seq(Blocks) /\ Len(<<block>>) = 1 /\ DOMAIN <<block>> = {1}
           /\ <<block>>[1] = block /\ block.id = ""
           /\ BlockTexts(<<block>>) = <<text>>
<1>1. << >> \in Texts /\ text \o << >> = text
  BY EmptySeq, ConcatEmptySeq DEF Texts
<1>2. block \in Blocks
  BY <1>1, Strings DEF Blocks
<1>3. block.text = text /\ block.payload = << >> /\ block.id = ""
  OBVIOUS
<1>4. <<block>> \in Seq(Blocks) /\ Len(<<block>>) = 1 /\ DOMAIN <<block>> = {1} /\ <<block>>[1] = block
  BY <1>2, Single
<1> DEFINE one == <<text>>
           blocks == <<block>>
<1>5. one \in Seq(Texts) /\ Len(one) = 1 /\ one[1] = text
  BY Single
<1>6. BlockTexts(blocks) \in Seq(Texts) /\ Len(BlockTexts(blocks)) = 1 /\ BlockTexts(blocks)[1] = text
  <2>1. blocks \in Seq(Blocks) /\ Len(blocks) = 1 /\ DOMAIN blocks = {1} /\ blocks[1] = block
    BY <1>4
  <2> HIDE DEF blocks
  <2>2. BlockTexts(blocks)[1] = text
    BY <1>1, <1>3, <2>1 DEF BlockTexts
  <2>3. QED BY <2>1, <2>2, BlockTextsType
<1> HIDE DEF one
<1>7. BlockTexts(blocks) = one
  <2> DEFINE other == BlockTexts(blocks)
  <2>1. other \in Seq(Texts) /\ Len(other) = 1 /\ other[1] = text
    BY <1>6
  <2> HIDE DEF other
  <2>2. \A i \in 1..Len(one) : i = 1
    <3>1. \A n \in Nat : \A i \in 1..n : n = 1 => i = 1
      BY OnlyOne
    <3>2. Len(one) \in Nat
      BY <1>5, LenProperties
    <3>3. QED BY <1>5, <3>1, <3>2
  <2>3. other = one
    BY <1>5, <2>1, <2>2, SeqEqual
  <2>4. QED BY <2>3 DEF other
<1>8. QED BY <1>3, <1>4, <1>7 DEF one

\* A message that is prose goes out as a text, or as a block with the marker.
LEMMA ProseItemIs ==
    ASSUME NEW m \in Messages, m.raw = NoRaw, NEW marked \in BOOLEAN, NEW x, x = ItemOf(m, marked)
    PROVE  /\ x \in Items /\ x.role = m.role
           /\ AllText(x.content) = MessageText(m) /\ IdsOf(x.content) = << >>
           /\ ~marked => x.content.kind = "text" /\ x.content.text = MessageText(m)
                         /\ x.content.blocks = << >>
           /\ marked => /\ x.content.kind = "blocks" /\ Len(x.content.blocks) = 1
                        /\ x.content.blocks[1] = TextBlock(MessageText(m), TRUE)
<1>1. MessageText(m) \in Texts /\ m.role \in STRING
  BY MessageTextType, MessageFields
<1>2. SUFFICES ASSUME NEW text \in Texts, text = MessageText(m)
               PROVE  /\ x \in Items /\ x.role = m.role
                      /\ AllText(x.content) = text /\ IdsOf(x.content) = << >>
                      /\ ~marked => x.content.kind = "text" /\ x.content.text = text
                                    /\ x.content.blocks = << >>
                      /\ marked => /\ x.content.kind = "blocks" /\ Len(x.content.blocks) = 1
                                   /\ x.content.blocks[1] = TextBlock(text, TRUE)
  BY <1>1
<1>3. CASE ~marked
  <2>1. x = [role |-> m.role, content |-> [kind |-> "text", text |-> text, blocks |-> << >>]]
    BY <1>2, <1>3 DEF ItemOf, Item, Content
  <2>2. [kind |-> "text", text |-> text, blocks |-> << >>] \in Contents
    BY <1>2, EmptySeq DEF Contents
  <2>3. x \in Items /\ x.content \in Contents
    BY <1>1, <2>1, <2>2 DEF Items
  <2>4. x.role = m.role /\ x.content.kind = "text" /\ x.content.text = text /\ x.content.blocks = << >>
    BY <2>1
  <2>5. AllText(x.content) = text
    BY <2>3, <2>4, AllTextIs
  <2>6. IdsOf(x.content) = << >>
    <3>1. DOMAIN x.content.blocks = {}
      BY <2>4
    <3>2. QED BY <2>3, <3>1, NoIds
  <2>7. QED BY <1>3, <2>3, <2>4, <2>5, <2>6
<1>4. CASE marked
  <2> DEFINE block == TextBlock(text, TRUE)
             blocks == <<block>>
  <2>1. x = [role |-> m.role, content |-> [kind |-> "blocks", text |-> << >>, blocks |-> blocks]]
    BY <1>2, <1>4 DEF ItemOf, Item, Content
  <2>2. /\ blocks \in Seq(Blocks) /\ Len(blocks) = 1 /\ DOMAIN blocks = {1}
        /\ blocks[1] = block /\ blocks[1].id = ""
        /\ BlockTexts(blocks) = <<text>>
    <3>1. block = [type |-> "text", id |-> "", text |-> text, payload |-> << >>, cached |-> TRUE]
      BY DEF TextBlock
    <3> HIDE DEF block
    <3>2. QED BY <1>2, <3>1, SingleTexts
  <2> HIDE DEF blocks
  <2>3. [kind |-> "blocks", text |-> << >>, blocks |-> blocks] \in Contents
    BY <2>2, EmptySeq DEF Contents, Texts
  <2>4. x \in Items /\ x.content \in Contents
    BY <1>1, <2>1, <2>3 DEF Items
  <2>5. x.role = m.role /\ x.content.kind = "blocks" /\ x.content.text = << >> /\ x.content.blocks = blocks
    BY <2>1
  <2>6. AllText(x.content) = text
    <3>1. FlattenSeq(<<text>>) = text
      BY <1>2, FlattenSingle DEF Texts
    <3>2. QED BY <2>2, <2>4, <2>5, <3>1, AllTextIs
  <2>7. IdsOf(x.content) = << >>
    BY <2>2, <2>4, <2>5, NoIds
  <2>8. QED BY <1>4, <2>2, <2>4, <2>5, <2>6, <2>7
<1>5. QED BY <1>3, <1>4

\* A structured message goes out as it is, but for a marker.
LEMMA RawItemIs ==
    ASSUME NEW m \in Messages, m.raw # NoRaw, NEW marked \in BOOLEAN, NEW x, x = ItemOf(m, marked)
    PROVE  x \in Items /\ SameButMarker(m.raw, x, marked)
<1>1. m.raw \in Items
  BY MessageFields
<1>2. CASE marked
  BY <1>1, <1>2, MarkedIs DEF ItemOf
<1>3. CASE ~marked
  <2>1. x = m.raw
    BY <1>3 DEF ItemOf
  <2>2. QED BY <1>1, <1>3, <2>1 DEF SameButMarker
<1>4. QED BY <1>2, <1>3

-----------------------------------------------------------------------------
(* A delivery: what the chain made of a request, as a body.                *)

\* Where the marker is put, if it is.
Marking(chosen, mark, s) ==
    \/ mark = 0
    \/ /\ s.inject /\ chosen.dialect = "anthropic" /\ ~HasCacheControl(chosen)
       /\ mark = Len(chosen.messages) - 1 /\ mark >= 1

\* middle is the request before dedup.
Delivers(working, middle, chosen, asked, sent, mark, s) ==
    /\ middle \in Requests /\ chosen \in Requests
    /\ RequestAlike(working, middle, s)
    /\ chosen = middle \/ Deduped(middle, chosen, s)
    /\ Marking(chosen, mark, s)
    /\ sent.items = [i \in DOMAIN chosen.messages |-> ItemOf(chosen.messages[i], i = mark)]
    /\ sent.system = IF chosen.dialect # "openai" /\ chosen.system # NoSystem
                     THEN Content("text", chosen.system, << >>) ELSE asked.system
    /\ sent.tools = asked.tools

\* What is delivered is the request before dedup, if it was not compressed, or
\* the result of the whole chain; the account of it is of the request delivered.
Result(working, middle, chosen, s) ==
    \/ chosen = working /\ middle = working
    \/ chosen = Compressed(working, s).request /\ middle = BeforeDedup(working, s).request

LEMMA DeliveryIs ==
    ASSUME setup \in Setups, NEW working \in Requests, working.breakpoint = 0,
           NEW body \in Bodies, NEW out, Emits(working, body, out)
    PROVE  \E middle, chosen, mark :
              /\ Result(working, middle, chosen, setup)
              /\ \/ /\ Delivers(working, middle, chosen, body, out.sent, mark, setup)
                    /\ RequestText(out.request) = RequestText(chosen)
                    /\ out.stats # << >> =>
                          /\ chosen = Compressed(working, setup).request
                          /\ middle = BeforeDedup(working, setup).request
                 \/ out.sent = body /\ out.request = working /\ out.stats = << >>
<1>1. PICK outcome :
              /\ Measures(working, outcome, setup)
              /\ outcome = Untouched(working) \/
                    (outcome = Compressed(working, setup)
                        /\ ~(Size(outcome.request, setup) > Size(working, setup)))
              /\ Injected(outcome.request) \in Requests
              /\ SameButBreakpoint(outcome.request, Injected(outcome.request))
              /\ \/ /\ Encodable(BodyText(Serialized(Injected(outcome.request), body)))
                    /\ out = [sent |-> Serialized(Injected(outcome.request), body),
                              request |-> Injected(outcome.request), stats |-> outcome.stats]
                 \/ /\ ~Encodable(BodyText(Serialized(Injected(outcome.request), body)))
                    /\ out = [sent |-> body, request |-> working, stats |-> << >>]
  BY EmitsIs
<1>2. Learns(setup)
  BY SetupIs
<1>3. PICK middle :
        /\ Result(working, middle, outcome.request, setup)
        /\ middle \in Requests /\ RequestAlike(working, middle, setup)
        /\ outcome.request = middle \/ Deduped(middle, outcome.request, setup)
        /\ outcome.stats # << >> =>
              /\ outcome.request = Compressed(working, setup).request
              /\ middle = BeforeDedup(working, setup).request
  <2>1. CASE outcome = Untouched(working)
    <3>1. outcome.request = working /\ outcome.stats = << >>
      BY <2>1 DEF Untouched, Outcome
    <3>2. QED BY <3>1, RequestAlikeReflexive DEF Result
  <2>2. CASE outcome = Compressed(working, setup)
    BY <1>2, <2>2, CompressedIs DEF Result
  <2>3. QED BY <1>1, <2>1, <2>2
<1> DEFINE chosen == outcome.request
           request == Injected(chosen)
<1>4. chosen \in Requests
  BY <1>1 DEF Measures
<1>5. chosen.breakpoint = 0
  BY <1>3 DEF RequestAlike, Deduped
<1>6. CASE ~Encodable(BodyText(Serialized(request, body)))
  <2>1. out.sent = body /\ out.request = working /\ out.stats = << >>
    BY <1>1, <1>6
  <2> HIDE DEF chosen
  <2>2. QED BY <1>3, <2>1 DEF chosen
<1>7. CASE Encodable(BodyText(Serialized(request, body)))
  <2>1. /\ out.sent = Serialized(request, body) /\ out.request = request
        /\ out.stats = outcome.stats
    BY <1>1, <1>7
  <2>2. /\ request \in Requests /\ SameButBreakpoint(chosen, request)
        /\ \/ request.breakpoint = 0
           \/ /\ setup.inject /\ chosen.dialect = "anthropic" /\ ~HasCacheControl(chosen)
              /\ CacheableBoundary(chosen) >= 1 /\ request.breakpoint = CacheableBoundary(chosen)
    <3> HIDE DEF chosen
    <3>1. QED BY <1>4, <1>5, InjectedIs
  <2>3. RequestText(out.request) = RequestText(chosen)
    <3> HIDE DEF chosen, request
    <3>1. QED BY <2>1, <2>2, SameText
  <2> DEFINE mark == BreakpointIndex(request)
  <2> HIDE DEF chosen, request
  <2>4. Marking(chosen, mark, setup)
    BY <2>2 DEF Marking, BreakpointIndex, CacheableBoundary
  <2>5. /\ request.messages = chosen.messages /\ request.system = chosen.system
        /\ request.dialect = chosen.dialect
    BY <2>2 DEF SameButBreakpoint
  <2>6. /\ out.sent.items = [i \in DOMAIN chosen.messages |-> ItemOf(chosen.messages[i], i = mark)]
        /\ out.sent.system = IF chosen.dialect # "openai" /\ chosen.system # NoSystem
                             THEN Content("text", chosen.system, << >>) ELSE body.system
        /\ out.sent.tools = body.tools
    <3> DEFINE items == [i \in DOMAIN chosen.messages |-> ItemOf(chosen.messages[i], i = mark)]
               system == IF chosen.dialect # "openai" /\ chosen.system # NoSystem
                         THEN Content("text", chosen.system, << >>) ELSE body.system
    <3>1. out.sent = [body EXCEPT !.items = items, !.system = system]
      BY <2>1, <2>5 DEF Serialized
    <3>2. body = [system |-> body.system, items |-> body.items, tools |-> body.tools]
      BY DEF Bodies
    <3> HIDE DEF items, system
    <3>3. out.sent = [system |-> system, items |-> items, tools |-> body.tools]
      BY <3>1, <3>2
    <3>4. QED BY <3>3 DEF items, system
  <2>7. Delivers(working, middle, chosen, body, out.sent, mark, setup)
    <3> HIDE DEF mark
    <3>1. QED BY <1>3, <1>4, <2>4, <2>6 DEF Delivers, chosen
  <2>8. out.stats # << >> =>
           /\ chosen = Compressed(working, setup).request
           /\ middle = BeforeDedup(working, setup).request
    BY <1>3, <2>1 DEF chosen
  <2>9. Result(working, middle, chosen, setup)
    BY <1>3 DEF chosen
  <2> HIDE DEF mark
  <2>10. QED BY <2>3, <2>7, <2>8, <2>9
<1>8. QED BY <1>6, <1>7

\* A message of which some spans are marked as repeats.
MessageDeduped(a, b) ==
    /\ a.role = b.role /\ a.raw = b.raw /\ Len(a.spans) = Len(b.spans)
    /\ \A j \in DOMAIN a.spans : b.spans[j] = a.spans[j] \/ b.spans[j] = Span(Marker, FALSE)

\* A delivery, message by message.
LEMMA DeliveredMessages ==
    ASSUME NEW working \in Requests, NEW middle \in Requests, NEW chosen \in Requests, NEW s,
           RequestAlike(working, middle, s), chosen = middle \/ Deduped(middle, chosen, s)
    PROVE  /\ Len(working.messages) = Len(chosen.messages)
           /\ DOMAIN working.messages = DOMAIN chosen.messages
           /\ chosen.dialect = working.dialect /\ chosen.tools = working.tools
           /\ chosen.system = middle.system
           /\ \A i \in DOMAIN working.messages :
                 /\ working.messages[i] \in Messages /\ middle.messages[i] \in Messages
                 /\ chosen.messages[i] \in Messages
                 /\ MessageAlike(working.messages[i], middle.messages[i], s)
                 /\ MessageDeduped(middle.messages[i], chosen.messages[i])
<1>1. /\ Len(working.messages) = Len(middle.messages)
      /\ Len(middle.messages) = Len(chosen.messages)
      /\ chosen.dialect = working.dialect /\ chosen.tools = working.tools
      /\ chosen.system = middle.system
      /\ \A i \in DOMAIN working.messages : MessageAlike(working.messages[i], middle.messages[i], s)
  BY DEF RequestAlike, Deduped
<1>2. /\ DOMAIN working.messages = 1..Len(working.messages)
      /\ DOMAIN middle.messages = 1..Len(middle.messages)
      /\ DOMAIN chosen.messages = 1..Len(chosen.messages)
      /\ \A i \in DOMAIN working.messages : working.messages[i] \in Messages
      /\ \A i \in DOMAIN middle.messages : middle.messages[i] \in Messages
      /\ \A i \in DOMAIN chosen.messages : chosen.messages[i] \in Messages
  BY RequestFields
<1>3. ASSUME NEW i \in DOMAIN middle.messages
      PROVE  MessageDeduped(middle.messages[i], chosen.messages[i])
  <2>1. CASE chosen = middle
    BY <2>1 DEF MessageDeduped
  <2>2. CASE Deduped(middle, chosen, s)
    BY <1>3, <2>2 DEF MessageDeduped, Deduped
  <2>3. QED BY <2>1, <2>2
<1>4. QED BY <1>1, <1>2, <1>3

LEMMA EssenceIs == ASSUME NEW text, NEW s PROVE Essence(text, s) = Sifted(text, Droppable(s))
BY DEF Essence, Sifted, Droppable

\* A repeat is marked, or there is none.
LEMMA RepeatIsMarked ==
    ASSUME NEW n \in Messages, NEW d \in Messages, n.raw = NoRaw, MessageDeduped(n, d)
    PROVE  d.raw = NoRaw /\ (d.spans = n.spans \/ Marks(MessageText(d)))
<1>1. /\ d.raw = NoRaw /\ n.spans \in Seq(SpanSet) /\ d.spans \in Seq(SpanSet)
      /\ MessageText(d) = SpansText(d.spans)
  BY MessageFields DEF MessageDeduped, MessageText
<1>2. DOMAIN n.spans = DOMAIN d.spans /\ DOMAIN d.spans = 1..Len(d.spans) /\ Len(n.spans) = Len(d.spans)
  BY <1>1, LenProperties DEF MessageDeduped
<1>3. CASE \A j \in DOMAIN n.spans : d.spans[j] = n.spans[j]
  BY <1>1, <1>2, <1>3, SeqEqual
<1>4. ASSUME NEW j \in DOMAIN n.spans, d.spans[j] # n.spans[j]
      PROVE  Marks(MessageText(d))
  <2>1. d.spans[j] = Span(Marker, FALSE)
    BY <1>4 DEF MessageDeduped
  <2>2. d.spans[j].text = Marker
    BY <2>1 DEF Span
  <2>3. /\ SpanTexts(d.spans) \in Seq(Seq(STRING)) /\ SpansText(d.spans) = FlattenSeq(SpanTexts(d.spans))
        /\ DOMAIN SpanTexts(d.spans) = DOMAIN d.spans
    BY <1>1, SpanTextsType DEF Texts, SpanTexts
  <2>4. SpanTexts(d.spans)[j] = Marker
    BY <1>2, <1>4, <2>2 DEF SpanTexts
  <2>5. ToSet(SpansText(d.spans)) = UNION {ToSet(SpanTexts(d.spans)[i]) : i \in DOMAIN SpanTexts(d.spans)}
    BY <2>3, FlattenHolds
  <2>6. ToSet(SpanTexts(d.spans)[j]) \subseteq ToSet(SpansText(d.spans))
    BY <1>2, <1>4, <2>3, <2>5
  <2>7. QED BY <1>1, <2>4, <2>6 DEF Marks
<1>5. QED BY <1>1, <1>3, <1>4

\* What a message of prose says stays, unless it is marked as a repeat.
LEMMA ProseDelivered ==
    ASSUME NEW m \in Messages, NEW n \in Messages, NEW d \in Messages, NEW s,
           m.raw = NoRaw, MessageAlike(m, n, s), MessageDeduped(n, d)
    PROVE  /\ n.raw = NoRaw /\ d.raw = NoRaw /\ d.role = m.role
           /\ Marks(MessageText(d)) \/ Essence(MessageText(m), s) = Essence(MessageText(d), s)
<1>1. /\ n.raw = NoRaw /\ d.raw = NoRaw /\ d.role = m.role
      /\ SpansAlike(m.spans, n.spans, Droppable(s))
  BY DEF MessageAlike, MessageDeduped
<1>2. m.spans \in Seq(SpanSet) /\ n.spans \in Seq(SpanSet) /\ d.spans \in Seq(SpanSet)
  BY MessageFields
<1>3. /\ MessageText(m) = SpansText(m.spans) /\ MessageText(n) = SpansText(n.spans)
      /\ MessageText(d) = SpansText(d.spans)
  BY <1>1 DEF MessageText
<1>4. Essence(MessageText(m), s) = Essence(MessageText(n), s)
  BY <1>1, <1>2, <1>3, SpansAlikeSay, EssenceIs DEF Alike
<1>5. d.spans = n.spans \/ Marks(MessageText(d))
  BY <1>1, RepeatIsMarked
<1>6. QED BY <1>1, <1>3, <1>4, <1>5

\* A message that was structured is delivered with its blocks.
LEMMA RawDelivered ==
    ASSUME NEW m \in Messages, NEW n \in Messages, NEW d \in Messages, NEW s,
           m.raw # NoRaw, MessageAlike(m, n, s), MessageDeduped(n, d)
    PROVE  /\ d.raw # NoRaw /\ d.raw = n.raw /\ d.raw.role = m.raw.role
           /\ d.raw.content.kind = m.raw.content.kind /\ d.raw.content.text = m.raw.content.text
           /\ BlocksAlike(m.raw.content.blocks, d.raw.content.blocks, s)
BY DEF MessageAlike, MessageDeduped

\* The blocks of a content that have a marker.
CachedBlocks(content) == {k \in DOMAIN content.blocks : content.blocks[k].cached}

\* An item, and what is sent for it.
Sent(a, x, marked, s) ==
    /\ x \in Items
    /\ ItemKept(a, x, s)
    /\ IdsOf(x.content) = IdsOf(a.content)
    /\ CachedBlocks(a.content) \subseteq CachedBlocks(x.content)
    /\ ~marked => CachedBlocks(x.content) = CachedBlocks(a.content)
    /\ CachedBlocks(x.content) \subseteq CachedBlocks(a.content) \union {Len(x.content.blocks)}

LEMMA ProseSent ==
    ASSUME NEW a \in Items, a.content.kind = "text", NEW d \in Messages, NEW s, NEW marked \in BOOLEAN,
           d.raw = NoRaw, d.role = a.role,
           Marks(MessageText(d)) \/ Essence(a.content.text, s) = Essence(MessageText(d), s),
           NEW x, x = ItemOf(d, marked)
    PROVE  Sent(a, x, marked, s)
<1>1. /\ x \in Items /\ x.role = d.role
      /\ AllText(x.content) = MessageText(d) /\ IdsOf(x.content) = << >>
      /\ ~marked => x.content.blocks = << >>
      /\ marked => Len(x.content.blocks) = 1
  BY ProseItemIs
<1>2. a.content \in Contents /\ x.content \in Contents
  BY <1>1, ItemFields
<1>3. a.content.blocks = << >>
  BY <1>2, ContentFields
<1>4. DOMAIN a.content.blocks = {}
  BY <1>3
<1>5. IdsOf(a.content) = << >>
  BY <1>2, <1>4, NoIds
<1>6. ContentKept(a.content, x.content, s)
  BY <1>1 DEF ContentKept
<1>7. CachedBlocks(a.content) = {}
  BY <1>4 DEF CachedBlocks
<1>8. ~marked => CachedBlocks(x.content) = {}
  <2>1. ~marked => DOMAIN x.content.blocks = {}
    BY <1>1
  <2>2. QED BY <2>1 DEF CachedBlocks
<1>9. CachedBlocks(x.content) \subseteq {Len(x.content.blocks)}
  <2>1. x.content.blocks \in Seq(Blocks)
    BY <1>2, ContentFields
  <2>2. marked => DOMAIN x.content.blocks = 1..1
    BY <1>1, <2>1, LenProperties
  <2>3. \A i \in 1..1 : i = 1
    BY OnlyOne
  <2>4. QED BY <1>1, <1>8, <2>2, <2>3 DEF CachedBlocks
<1>10. QED BY <1>1, <1>5, <1>6, <1>7, <1>8, <1>9 DEF Sent, ItemKept

LEMMA RawSent ==
    ASSUME NEW a \in Items, NEW d \in Messages, NEW s, NEW marked \in BOOLEAN,
           d.raw # NoRaw, d.raw.role = a.role,
           d.raw.content.kind = a.content.kind, d.raw.content.text = a.content.text,
           BlocksAlike(a.content.blocks, d.raw.content.blocks, s),
           NEW x, x = ItemOf(d, marked)
    PROVE  Sent(a, x, marked, s)
<1> DEFINE b == d.raw
<1>1. x \in Items /\ SameButMarker(b, x, marked)
  BY RawItemIs
<1>2. b \in Items /\ b.content \in Contents /\ a.content \in Contents /\ x.content \in Contents
  BY <1>1, MessageFields, ItemFields
<1>3. AllText(b.content) = AllText(x.content) /\ IdsOf(b.content) = IdsOf(x.content)
  BY <1>1, <1>2, SameAllText
<1>4. /\ a.content.blocks \in Seq(Blocks) /\ b.content.blocks \in Seq(Blocks)
      /\ x.content.blocks \in Seq(Blocks)
  BY <1>2, ContentFields
<1>5. /\ Len(a.content.blocks) = Len(b.content.blocks) /\ Len(b.content.blocks) = Len(x.content.blocks)
      /\ DOMAIN a.content.blocks = DOMAIN b.content.blocks
      /\ DOMAIN b.content.blocks = DOMAIN x.content.blocks
      /\ DOMAIN a.content.blocks = 1..Len(a.content.blocks)
  BY <1>1, <1>4, LenProperties DEF BlocksAlike, SameButMarker
<1>6. IdsOf(a.content) = IdsOf(b.content)
  <2>1. [j \in DOMAIN a.content.blocks |-> a.content.blocks[j].id]
          = [j \in DOMAIN b.content.blocks |-> b.content.blocks[j].id]
    BY <1>5 DEF BlocksAlike, BlockAlike
  <2>2. QED BY <2>1 DEF IdsOf
<1>7. \A j \in DOMAIN a.content.blocks :
         BlockAlike(a.content.blocks[j], b.content.blocks[j], s)
  BY DEF BlocksAlike
<1>8. x.role = a.role /\ x.content.kind = a.content.kind /\ x.content.text = a.content.text
  BY <1>1 DEF SameButMarker
<1>9. \A j \in DOMAIN a.content.blocks :
         LET y == x.content.blocks[j]
             z == b.content.blocks[j]
         IN  /\ z.type = y.type /\ z.id = y.id /\ z.text = y.text /\ z.payload = y.payload
             /\ y.cached = IF marked /\ b.content.kind = "blocks" /\ j = Len(b.content.blocks)
                           THEN TRUE ELSE z.cached
  BY <1>1, <1>5 DEF SameButMarker
<1> HIDE DEF b
<1>10. \A j \in DOMAIN a.content.blocks : BlockKept(a.content.blocks[j], x.content.blocks[j], s)
  <2> SUFFICES ASSUME NEW j \in DOMAIN a.content.blocks
               PROVE  BlockKept(a.content.blocks[j], x.content.blocks[j], s)
    OBVIOUS
  <2> DEFINE p == a.content.blocks[j]
             q == b.content.blocks[j]
             y == x.content.blocks[j]
  <2>1. BlockAlike(p, q, s) /\ q.type = y.type /\ q.id = y.id /\ q.text = y.text /\ q.payload = y.payload
    BY <1>7, <1>9
  <2> HIDE DEF p, q, y
  <2>2. p.type = "text" => Essence(p.text, s) = Essence(y.text, s)
    BY <2>1, EssenceIs DEF BlockAlike, Alike
  <2>3. BlockKept(p, y, s)
    BY <2>1, <2>2 DEF BlockKept, BlockAlike
  <2>4. QED BY <2>3 DEF p, y
<1>11. ContentKept(a.content, x.content, s)
  <2>1. CASE a.content.kind = "text"
    <3>1. AllText(x.content) = a.content.text
      BY <1>2, <1>8, <2>1, AllTextIs
    <3>2. QED BY <2>1, <3>1 DEF ContentKept
  <2>2. CASE a.content.kind = "blocks"
    BY <1>5, <1>8, <1>10, <2>2 DEF ContentKept
  <2>3. CASE a.content.kind \notin {"text", "blocks"}
    <3>1. a.content.blocks = << >> /\ x.content.blocks = << >>
      BY <1>2, <1>8, <2>3, ContentFields
    <3>2. /\ a.content = [kind |-> a.content.kind, text |-> a.content.text, blocks |-> a.content.blocks]
          /\ x.content = [kind |-> x.content.kind, text |-> x.content.text, blocks |-> x.content.blocks]
      BY <1>2, ContentFields
    <3>3. a.content = x.content
      BY <1>8, <3>1, <3>2
    <3>4. QED BY <2>3, <3>3 DEF ContentKept
  <2>4. QED BY <2>1, <2>2, <2>3
<1>12. \A j \in DOMAIN a.content.blocks : a.content.blocks[j].cached = b.content.blocks[j].cached
  BY <1>7 DEF BlockAlike
<1>13. /\ CachedBlocks(a.content) \subseteq CachedBlocks(x.content)
       /\ ~marked => CachedBlocks(x.content) = CachedBlocks(a.content)
       /\ CachedBlocks(x.content) \subseteq CachedBlocks(a.content) \union {Len(x.content.blocks)}
  <2> DEFINE isLast(j) == marked /\ b.content.kind = "blocks" /\ j = Len(b.content.blocks)
  <2>1. \A j \in DOMAIN a.content.blocks : isLast(j) => j = Len(x.content.blocks)
    BY <1>5
  <2>2. \A j \in DOMAIN a.content.blocks : isLast(j) => marked
    OBVIOUS
  <2>3. \A j \in DOMAIN a.content.blocks :
           x.content.blocks[j].cached = IF isLast(j) THEN TRUE ELSE a.content.blocks[j].cached
    BY <1>9, <1>12
  <2> HIDE DEF isLast
  <2>4. \A j \in DOMAIN a.content.blocks :
           /\ isLast(j) => x.content.blocks[j].cached
           /\ ~isLast(j) => x.content.blocks[j].cached = a.content.blocks[j].cached
    BY <2>3
  <2>5. DOMAIN a.content.blocks = DOMAIN x.content.blocks
    BY <1>5
  <2>6. CachedBlocks(a.content) \subseteq CachedBlocks(x.content)
    BY <2>4, <2>5, Zenon DEF CachedBlocks
  <2>7. \A k \in CachedBlocks(x.content) : isLast(k) \/ k \in CachedBlocks(a.content)
    BY <2>4, <2>5, Zenon DEF CachedBlocks
  <2>8. \A k \in CachedBlocks(x.content) : k \in DOMAIN a.content.blocks
    BY <2>5 DEF CachedBlocks
  <2>9. QED BY <2>1, <2>2, <2>6, <2>7, <2>8
<1>14. QED BY <1>1, <1>3, <1>6, <1>8, <1>11, <1>13 DEF Sent, ItemKept

LEMMA ItemDelivered ==
    ASSUME NEW dialect, NEW a \in Items, NEW structured, NEW m,
           m = MessageOf(dialect, a, structured), m # Unread,
           NEW n \in Messages, NEW d \in Messages, NEW s,
           MessageAlike(m, n, s), MessageDeduped(n, d),
           NEW marked \in BOOLEAN, NEW x, x = ItemOf(d, marked)
    PROVE  Sent(a, x, marked, s)
<1>1. /\ m \in Messages
      /\ m.raw = NoRaw => /\ IsTextItem(dialect, a) /\ m.role = a.role
                          /\ MessageText(m) = a.content.text
      /\ m.raw # NoRaw => m.raw = a
  BY MessageOfIs
<1>2. CASE m.raw = NoRaw
  <2>1. /\ d.raw = NoRaw /\ d.role = m.role
        /\ Marks(MessageText(d)) \/ Essence(MessageText(m), s) = Essence(MessageText(d), s)
    BY <1>1, <1>2, ProseDelivered
  <2>2. QED BY <1>1, <1>2, <2>1, ProseSent DEF IsTextItem
<1>3. CASE m.raw # NoRaw
  <2>1. /\ d.raw # NoRaw /\ d.raw.role = m.raw.role
        /\ d.raw.content.kind = m.raw.content.kind /\ d.raw.content.text = m.raw.content.text
        /\ BlocksAlike(m.raw.content.blocks, d.raw.content.blocks, s)
    BY <1>1, <1>3, RawDelivered
  <2>2. QED BY <1>1, <1>3, <2>1, RawSent
<1>4. QED BY <1>2, <1>3

-----------------------------------------------------------------------------
(* What a compacted request is made into can be encoded.                   *)

-----------------------------------------------------------------------------
(* A turn, as it is prepared: the original goes out, or what was made of   *)
(* the request that was read.                                              *)

ReadAs(t, s) == Reads(t.canonical, s.dialect, t.asked, s.structured)

AskedUnder(t, s) ==
    t.asked \in Bodies /\ t.asked.system = s.system /\ t.asked.tools = s.tools

\* The original goes out: it was not read, or what was made of it cannot be
\* encoded.  Of a compacted request the account is then of the window.
SentAsIs(t, s) ==
    /\ t.sent = t.asked
    /\ t.canonical # Unread =>
          /\ ReadAs(t, s)
          /\ ~Compacted(t) => t.after = Size(t.canonical, s) /\ t.stages = << >>

SentAs(t, middle, chosen, mark, s) ==
    /\ ReadAs(t, s) /\ t.canonical \in Requests /\ t.working \in Requests
    /\ MemoryStep(t.canonical, t.working, s)
    /\ Result(t.working, middle, chosen, s)
    /\ Delivers(t.working, middle, chosen, t.asked, t.sent, mark, s)
    /\ t.after = Size(chosen, s)
    /\ ~Compacted(t) /\ t.stages # << >> =>
          /\ chosen = Compressed(t.working, s).request
          /\ middle = BeforeDedup(t.working, s).request

LEMMA PreparedSends ==
    ASSUME setup \in Setups, Sound(graph), NEW items \in Conversations, NEW stream,
           NEW t, t = Prepared(Body(items), stream)
    PROVE  /\ AskedUnder(t, setup)
           /\ SentAsIs(t, setup) \/ \E middle, chosen, mark : SentAs(t, middle, chosen, mark, setup)
<1>1. Body(items) \in Bodies /\ Body(items).system = setup.system /\ Body(items).tools = setup.tools
  BY BodyIs
<1>2. CASE t = Passed(Body(items), stream)
  <2>1. /\ t.asked = Body(items) /\ t.sent = Body(items) /\ t.canonical = Unread
    BY <1>2 DEF Passed
  <2>2. QED BY <1>1, <2>1 DEF AskedUnder, SentAsIs
<1>3. ASSUME NEW canonical, NEW working, NEW out, PreparedFrom(t, items, canonical, working, out)
      PROVE  /\ AskedUnder(t, setup)
             /\ SentAsIs(t, setup) \/ \E middle, chosen, mark : SentAs(t, middle, chosen, mark, setup)
  <2> DEFINE body == Body(items)
  <2>1. /\ canonical = Parsed(setup.dialect, body, setup.structured)
        /\ canonical \in Requests /\ canonical.breakpoint = 0
        /\ working \in Requests /\ working.breakpoint = 0
        /\ MemoryStep(canonical, working, setup)
        /\ Emits(working, body, out)
        /\ t = Optimized(body, t.stream, canonical, working, out)
    BY <1>3 DEF PreparedFrom
  <2>2. body \in Bodies /\ body.system = setup.system /\ body.tools = setup.tools
    BY <1>1
  <2> HIDE DEF body
  <2>3. /\ t.asked = body /\ t.sent = out.sent /\ t.canonical = canonical /\ t.working = working
        /\ t.stages = StageStats(canonical, working, out.stats)
        /\ t.after = Size(out.request, setup)
    BY <2>1 DEF Optimized
  <2>4. AskedUnder(t, setup)
    BY <2>2, <2>3 DEF AskedUnder
  <2>5. canonical # Unread
    BY <2>1, TokenAssumption
  <2>6. Reads(canonical, setup.dialect, body, setup.structured)
    BY <2>1, <2>2, <2>5, ParsedIs
  <2>7. ReadAs(t, setup)
    BY <2>3, <2>6 DEF ReadAs
  <2>8. out.stats \in Seq(StagesOf(Sizes(setup)))
    BY <2>1, EmittedIs
  <2>9. working = canonical => t.stages = out.stats
    BY <2>3, <2>8, ConcatEmptySeq DEF StageStats
  <2>10. PICK middle, chosen, mark :
              /\ Result(working, middle, chosen, setup)
              /\ \/ /\ Delivers(working, middle, chosen, body, out.sent, mark, setup)
                    /\ RequestText(out.request) = RequestText(chosen)
                    /\ out.stats # << >> =>
                          /\ chosen = Compressed(working, setup).request
                          /\ middle = BeforeDedup(working, setup).request
                 \/ out.sent = body /\ out.request = working /\ out.stats = << >>
    BY <2>1, <2>2, DeliveryIs
  <2>11. CASE /\ Delivers(working, middle, chosen, body, out.sent, mark, setup)
              /\ RequestText(out.request) = RequestText(chosen)
              /\ out.stats # << >> =>
                    /\ chosen = Compressed(working, setup).request
                    /\ middle = BeforeDedup(working, setup).request
    <3>1. t.after = Size(chosen, setup)
      BY <2>3, <2>11 DEF Size
    <3>2. SentAs(t, middle, chosen, mark, setup)
      BY <2>1, <2>3, <2>7, <2>9, <2>10, <2>11, <3>1 DEF SentAs, Compacted
    <3>3. QED BY <2>4, <3>2
  <2>12. CASE out.sent = body /\ out.request = working /\ out.stats = << >>
    <3>1. ~Compacted(t) => t.after = Size(t.canonical, setup) /\ t.stages = << >>
      BY <2>3, <2>9, <2>12 DEF Compacted
    <3>2. SentAsIs(t, setup)
      BY <2>3, <2>7, <2>12, <3>1 DEF SentAsIs
    <3>3. QED BY <2>4, <3>2
  <2>13. QED BY <2>10, <2>11, <2>12
<1>4. QED BY <1>2, <1>3, PreparedIs

-----------------------------------------------------------------------------
(* What is sent, message by message.                                       *)

\* Of a request that was not compacted.
Paired(t, s, mark) ==
    /\ t.asked.items \in Seq(Items) /\ t.sent.items \in Seq(Items)
    /\ Len(t.sent.items) = Len(t.asked.items)
    /\ \A i \in DOMAIN t.asked.items : Sent(t.asked.items[i], t.sent.items[i], i = mark, s)

\* The first message of a window, with what memory has put before it.
FirstSent(a, x, marked, s) ==
    /\ x \in Items /\ x.role = a.role /\ IdsOf(x.content) = << >>
    /\ ~marked => CachedBlocks(x.content) = {}
    /\ CachedBlocks(x.content) \subseteq {Len(x.content.blocks)}
    /\ \/ Marks(AllText(x.content))
       \/ IsSuffix(Essence(a.content.text, s), Essence(AllText(x.content), s))

\* Of a request that was compacted: its window.
WindowPaired(t, s, start, mark) ==
    /\ t.asked.items \in Seq(Items) /\ t.sent.items \in Seq(Items)
    /\ \A i \in DOMAIN t.asked.items : t.asked.items[i].content.kind = "text"
    /\ s.keepRecentTurns \in Int /\ s.keepRecentTurns > 0
    /\ start \in 2..Len(t.asked.items) - s.keepRecentTurns + 1
    /\ t.asked.items[start].role = "user"
    /\ Len(t.sent.items) = Len(t.asked.items) - start + 1
    /\ FirstSent(t.asked.items[start], t.sent.items[1], 1 = mark, s)
    /\ \A i \in 2..Len(t.sent.items) : Sent(t.asked.items[start + i - 1], t.sent.items[i], i = mark, s)

LEMMA ConcatSuffix ==
    ASSUME NEW S, NEW p \in Seq(S), NEW q \in Seq(S)
    PROVE  IsSuffix(q, p \o q)
<1> DEFINE t == p \o q
           a == Reverse(q)
           b == Reverse(t)
<1>1. /\ Len(p) \in Nat /\ Len(q) \in Nat /\ Len(t) = Len(p) + Len(q) /\ t \in Seq(S)
      /\ \A i \in 1..Len(q) : t[Len(p) + i] = q[i]
  BY ConcatProperties, LenProperties
<1> HIDE DEF t
<1>2. a \in [1..Len(q) -> S] /\ \A i \in 1..Len(q) : a[i] = q[Len(q) - i + 1]
  <2>1. \A i \in 1..Len(q) : Len(q) - i + 1 \in 1..Len(q)
    BY <1>1
  <2>2. \A i \in 1..Len(q) : q[Len(q) - i + 1] \in S
    BY <2>1, ElementOfSeq
  <2>3. QED BY <2>2 DEF Reverse
<1>3. b \in [1..Len(t) -> S] /\ \A i \in 1..Len(t) : b[i] = t[Len(t) - i + 1]
  <2>1. \A i \in 1..Len(t) : Len(t) - i + 1 \in 1..Len(t)
    BY <1>1
  <2>2. \A i \in 1..Len(t) : t[Len(t) - i + 1] \in S
    BY <1>1, <2>1, ElementOfSeq
  <2>3. QED BY <2>2 DEF Reverse
<1> HIDE DEF a, b
<1>4. a \in Seq(S) /\ Len(a) = Len(q) /\ b \in Seq(S) /\ Len(b) = Len(t)
  <2>1. DOMAIN q = 1..Len(q) /\ DOMAIN t = 1..Len(t)
    BY <1>1, LenProperties
  <2>2. a \in [DOMAIN q -> S] /\ b \in [DOMAIN t -> S]
    BY <2>1, <1>2, <1>3
  <2>3. a \in Seq(S) /\ Len(a) = Len(q)
    BY <2>2, AsSeq
  <2>4. b \in Seq(S) /\ Len(b) = Len(t)
    BY <2>2, <1>1, AsSeq
  <2>5. QED BY <2>3, <2>4
<1>5. Len(a) <= Len(b)
  BY <1>1, <1>4
<1>6. \A i \in 1..Len(a) : a[i] = b[i]
  <2> SUFFICES ASSUME NEW i \in 1..Len(a) PROVE a[i] = b[i]
    OBVIOUS
  <2>1. /\ i \in 1..Len(q) /\ i \in 1..Len(t) /\ Len(q) - i + 1 \in 1..Len(q)
        /\ Len(t) - i + 1 = Len(p) + (Len(q) - i + 1)
    BY <1>1, <1>4
  <2>2. t[Len(t) - i + 1] = q[Len(q) - i + 1]
    BY <1>1, <2>1
  <2>3. QED BY <1>2, <1>3, <2>1, <2>2
<1>7. /\ SubSeq(a, 1, Len(a)) \in Seq(S) /\ Len(SubSeq(a, 1, Len(a))) = Len(a)
      /\ \A i \in 1..Len(a) : SubSeq(a, 1, Len(a))[i] = a[i]
      /\ SubSeq(b, 1, Len(a)) \in Seq(S) /\ Len(SubSeq(b, 1, Len(a))) = Len(a)
      /\ \A i \in 1..Len(a) : SubSeq(b, 1, Len(a))[i] = b[i]
  BY <1>1, <1>4, <1>5, SubSeqProperties
<1>8. SubSeq(a, 1, Len(a)) = SubSeq(b, 1, Len(a))
  BY <1>6, <1>7, SeqEqual
<1>9. QED BY <1>5, <1>8 DEF IsSuffix, IsPrefix, a, b, t

LEMMA AsItem ==
    ASSUME NEW role \in STRING, NEW text \in Texts
    PROVE  /\ Item(role, Content("text", text, << >>)) \in Items
           /\ Item(role, Content("text", text, << >>)).role = role
           /\ Item(role, Content("text", text, << >>)).content.kind = "text"
           /\ Item(role, Content("text", text, << >>)).content.text = text
           /\ Item(role, Content("text", text, << >>)).content.blocks = << >>
BY EmptySeq, Strings DEF Item, Content, Items, Contents

\* The first message of a window: what it says comes after the header.
LEMMA HeadedDelivered ==
    ASSUME NEW a \in Items, a.content.kind = "text", NEW m \in Messages, m.raw = NoRaw,
           m.role = a.role, MessageText(m) = a.content.text,
           NEW header \in Texts, NEW h, h = Headed(m, header),
           NEW n \in Messages, NEW d \in Messages, NEW s,
           MessageAlike(h, n, s), MessageDeduped(n, d),
           NEW marked \in BOOLEAN, NEW x, x = ItemOf(d, marked)
    PROVE  FirstSent(a, x, marked, s)
<1> DEFINE text == header \o a.content.text
           b == Item(a.role, Content("text", text, << >>))
<1>1. h \in Messages /\ h.role = m.role /\ h.raw = NoRaw /\ MessageText(h) = text
  <2>1. m \in Messages /\ m.raw = NoRaw /\ header \in Texts
    OBVIOUS
  <2>2. /\ Headed(m, header) \in Messages
        /\ Headed(m, header).role = m.role /\ Headed(m, header).raw = NoRaw
        /\ MessageText(Headed(m, header)) = header \o MessageText(m)
    BY ONLY <2>1, HeadedIs
  <2>3. QED BY <2>2
<1>2. a.role \in STRING /\ a.content.text \in Texts /\ a.content \in Contents
  BY ItemFields, ContentFields
<1>3. text \in Texts
  BY <1>2, TextsConcat
<1> HIDE DEF text
<1>4. b \in Items /\ b.role = a.role /\ b.content.kind = "text" /\ b.content.text = text /\ b.content.blocks = << >>
  BY <1>2, <1>3, AsItem
<1>5. /\ d.raw = NoRaw /\ d.role = h.role
      /\ Marks(MessageText(d)) \/ Essence(MessageText(h), s) = Essence(MessageText(d), s)
  BY <1>1, ProseDelivered
<1> HIDE DEF b
<1>6. Sent(b, x, marked, s)
  BY <1>1, <1>4, <1>5, ProseSent
<1>7. x \in Items /\ x.role = a.role /\ AllText(x.content) = MessageText(d) /\ IdsOf(x.content) = << >>
  <2>1. d.raw = NoRaw
    BY <1>5
  <2>2. x \in Items /\ x.role = d.role /\ AllText(x.content) = MessageText(d) /\ IdsOf(x.content) = << >>
    <3>1. d \in Messages /\ marked \in BOOLEAN /\ x = ItemOf(d, marked)
      OBVIOUS
    <3>2. QED BY ONLY <2>1, <3>1, ProseItemIs
  <2>3. d.role = a.role
    BY <1>1, <1>5
  <2>4. QED BY <2>2, <2>3
<1>8. CachedBlocks(b.content) = {}
  <2>1. DOMAIN b.content.blocks = {}
    BY <1>4
  <2>2. QED BY <2>1 DEF CachedBlocks
<1>9. Marks(AllText(x.content)) \/ IsSuffix(Essence(a.content.text, s), Essence(AllText(x.content), s))
  <2>1. CASE Marks(MessageText(d))
    BY <1>7, <2>1
  <2>2. CASE Essence(text, s) = Essence(MessageText(d), s)
    <3>1. header \in Seq(STRING) /\ a.content.text \in Seq(STRING)
      BY <1>2 DEF Texts
    <3>2. Essence(text, s) = Essence(header, s) \o Essence(a.content.text, s)
      <4> DEFINE own == a.content.text
                 fall == Droppable(s)
      <4>1. own \in Seq(STRING)
        BY <3>1
      <4>2. text = header \o own
        BY DEF text
      <4>3. Essence(text, s) = Sifted(text, fall) /\ Essence(header, s) = Sifted(header, fall)
            /\ Essence(own, s) = Sifted(own, fall)
        BY EssenceIs
      <4> HIDE DEF own, fall
      <4>4. Sifted(header \o own, fall) = Sifted(header, fall) \o Sifted(own, fall)
        BY <3>1, <4>1, SiftedConcat
      <4>5. Essence(text, s) = Essence(header, s) \o Essence(own, s)
        BY <4>2, <4>3, <4>4
      <4>6. QED BY <4>5 DEF own
    <3>3. Essence(header, s) \in Seq(STRING) /\ Essence(a.content.text, s) \in Seq(STRING)
      BY <3>1, SiftedType, EssenceIs
    <3>4. IsSuffix(Essence(a.content.text, s), Essence(text, s))
      BY <3>2, <3>3, ConcatSuffix
    <3>5. QED BY <1>7, <2>2, <3>4
  <2>3. QED BY <1>1, <1>5, <2>1, <2>2
<1>10. QED BY <1>6, <1>7, <1>8, <1>9 DEF Sent, FirstSent

\* A delivery, message by message.
DeliveredAs(t, middle, chosen, mark, s) ==
    /\ Len(t.working.messages) = Len(chosen.messages)
    /\ DOMAIN t.working.messages = DOMAIN chosen.messages
    /\ chosen.dialect = t.working.dialect /\ chosen.tools = t.working.tools
    /\ chosen.system = middle.system
    /\ t.sent.items = [i \in DOMAIN chosen.messages |-> ItemOf(chosen.messages[i], i = mark)]
    /\ \A i \in DOMAIN t.working.messages :
          /\ t.working.messages[i] \in Messages /\ middle.messages[i] \in Messages
          /\ chosen.messages[i] \in Messages
          /\ MessageAlike(t.working.messages[i], middle.messages[i], s)
          /\ MessageDeduped(middle.messages[i], chosen.messages[i])

LEMMA Delivered ==
    ASSUME NEW t, NEW s, NEW middle, NEW chosen, NEW mark, SentAs(t, middle, chosen, mark, s)
    PROVE  DeliveredAs(t, middle, chosen, mark, s)
<1> DEFINE working == t.working
<1>1. /\ working \in Requests /\ middle \in Requests /\ chosen \in Requests
      /\ RequestAlike(working, middle, s)
      /\ chosen = middle \/ Deduped(middle, chosen, s)
      /\ t.sent.items = [i \in DOMAIN chosen.messages |-> ItemOf(chosen.messages[i], i = mark)]
  BY DEF SentAs, Delivers
<1> HIDE DEF working
<1>2. /\ Len(working.messages) = Len(chosen.messages)
      /\ DOMAIN working.messages = DOMAIN chosen.messages
      /\ chosen.dialect = working.dialect /\ chosen.tools = working.tools
      /\ chosen.system = middle.system
      /\ \A i \in DOMAIN working.messages :
            /\ working.messages[i] \in Messages /\ middle.messages[i] \in Messages
            /\ chosen.messages[i] \in Messages
            /\ MessageAlike(working.messages[i], middle.messages[i], s)
            /\ MessageDeduped(middle.messages[i], chosen.messages[i])
  BY <1>1, DeliveredMessages
<1>3. QED BY <1>1, <1>2 DEF working, DeliveredAs

LEMMA SentPaired ==
    ASSUME NEW t, NEW s, t.asked \in Bodies, NEW middle, NEW chosen, NEW mark,
           SentAs(t, middle, chosen, mark, s), ~Compacted(t)
    PROVE  Paired(t, s, mark)
<1> DEFINE asked == t.asked.items
           sent == t.sent.items
           r == t.canonical
           working == t.working
<1>1. /\ Len(working.messages) = Len(chosen.messages)
      /\ DOMAIN working.messages = DOMAIN chosen.messages
      /\ sent = [i \in DOMAIN chosen.messages |-> ItemOf(chosen.messages[i], i = mark)]
      /\ \A i \in DOMAIN working.messages :
            /\ middle.messages[i] \in Messages /\ chosen.messages[i] \in Messages
            /\ MessageAlike(working.messages[i], middle.messages[i], s)
            /\ MessageDeduped(middle.messages[i], chosen.messages[i])
  <2>1. DeliveredAs(t, middle, chosen, mark, s)
    BY Delivered
  <2>2. QED BY <2>1 DEF DeliveredAs
<1>2. Reads(r, s.dialect, t.asked, s.structured) /\ working = r
  BY DEF SentAs, ReadAs, Compacted
<1>3. /\ Len(r.messages) = Len(asked) /\ DOMAIN r.messages = DOMAIN asked
      /\ \A i \in DOMAIN asked :
            /\ asked[i] \in Items
            /\ r.messages[i] = MessageOf(s.dialect, asked[i], s.structured)
            /\ r.messages[i] # Unread
  BY <1>2 DEF Reads
<1>4. asked \in Seq(Items) /\ DOMAIN asked = 1..Len(asked)
  <2>1. asked \in Seq(Items)
    BY DEF Bodies
  <2>2. QED BY <2>1, LenProperties
<1> HIDE DEF asked, sent, r, working
<1>5. DOMAIN sent = DOMAIN asked
  BY <1>1, <1>2, <1>3
<1>6. ASSUME NEW i \in DOMAIN asked
      PROVE  sent[i] \in Items /\ Sent(asked[i], sent[i], i = mark, s)
  <2> DEFINE a == asked[i]
             m == r.messages[i]
             n == middle.messages[i]
             d == chosen.messages[i]
             x == sent[i]
             marked == i = mark
  <2>1. a \in Items /\ m = MessageOf(s.dialect, a, s.structured) /\ m # Unread
    BY <1>3
  <2>2. n \in Messages /\ d \in Messages /\ MessageAlike(m, n, s) /\ MessageDeduped(n, d)
    BY <1>1, <1>2, <1>3
  <2>3. x = ItemOf(d, marked) /\ marked \in BOOLEAN
    BY <1>1, <1>2, <1>3
  <2> HIDE DEF a, m, n, d, x, marked
  <2>4. Sent(a, x, marked, s)
    BY <2>1, <2>2, <2>3, ItemDelivered
  <2>5. x \in Items
    BY <2>4 DEF Sent
  <2>6. QED BY <2>4, <2>5 DEF a, x, marked
<1>7. sent \in Seq(Items) /\ Len(sent) = Len(asked)
  <2>1. sent = [i \in DOMAIN asked |-> sent[i]]
    BY <1>1, <1>2, <1>3
  <2>2. sent \in [DOMAIN asked -> Items]
    BY <1>6, <2>1
  <2>3. QED BY <1>4, <2>2, AsSeq
<1>8. QED BY <1>4, <1>6, <1>7 DEF Paired, asked, sent

LEMMA ProseIs ==
    ASSUME NEW dialect, NEW a \in Items, NEW structured, NEW m,
           m = MessageOf(dialect, a, structured), m # Unread, m.raw = NoRaw
    PROVE  /\ m \in Messages /\ a.content.kind = "text" /\ m.role = a.role
           /\ MessageText(m) = a.content.text
<1>1. /\ m \in Messages
      /\ m.raw = NoRaw => /\ IsTextItem(dialect, a) /\ m.role = a.role
                          /\ MessageText(m) = a.content.text
      /\ m.raw # NoRaw => m.raw = a
  BY MessageOfIs
<1>2. QED BY <1>1 DEF IsTextItem

LEMMA SentWindow ==
    ASSUME NEW t, NEW s \in Setups, t.asked \in Bodies, NEW middle, NEW chosen, NEW mark,
           SentAs(t, middle, chosen, mark, s), Compacted(t)
    PROVE  \E start : WindowPaired(t, s, start, mark)
<1> DEFINE asked == t.asked.items
           sent == t.sent.items
           r == t.canonical
           b == t.working
           keep == s.keepRecentTurns
<1>1. /\ Len(b.messages) = Len(chosen.messages)
      /\ DOMAIN b.messages = DOMAIN chosen.messages
      /\ sent = [i \in DOMAIN chosen.messages |-> ItemOf(chosen.messages[i], i = mark)]
      /\ \A i \in DOMAIN b.messages :
            /\ middle.messages[i] \in Messages /\ chosen.messages[i] \in Messages
            /\ MessageAlike(b.messages[i], middle.messages[i], s)
            /\ MessageDeduped(middle.messages[i], chosen.messages[i])
  <2>1. DeliveredAs(t, middle, chosen, mark, s)
    BY Delivered
  <2>2. QED BY <2>1 DEF DeliveredAs
<1>2. /\ Reads(r, s.dialect, t.asked, s.structured) /\ MemoryStep(r, b, s) /\ b # r
      /\ b \in Requests
  BY DEF SentAs, ReadAs, Compacted
<1>3. /\ r \in Requests /\ Len(r.messages) = Len(asked) /\ DOMAIN r.messages = DOMAIN asked
      /\ \A i \in DOMAIN asked :
            /\ asked[i] \in Items
            /\ r.messages[i] = MessageOf(s.dialect, asked[i], s.structured)
            /\ r.messages[i] # Unread
  BY <1>2 DEF Reads
<1>4. asked \in Seq(Items) /\ DOMAIN asked = 1..Len(asked) /\ Len(asked) \in Nat
  <2>1. asked \in Seq(Items)
    BY DEF Bodies
  <2>2. QED BY <2>1, LenProperties
<1>5. PICK start \in 2..Len(r.messages) - keep + 1, header \in Seq(Clean) :
         r.messages[start].role = "user" /\ Windowed(r, b, start, header)
  BY <1>2 DEF MemoryStep
<1>6. keep > 0 /\ keep \in Int /\ ~HasStructured(r)
  BY <1>2, SetupIs DEF MemoryStep
<1>7. header \in Texts
  BY DEF Clean, Texts
<1>8. DOMAIN b.messages = 1..Len(b.messages) /\ Len(b.messages) \in Nat
  BY <1>2, RequestFields
<1> HIDE DEF asked, sent, r, b, keep
<1>9. /\ Len(b.messages) = Len(asked) - start + 1
      /\ b.messages[1] = Headed(r.messages[start], header)
      /\ \A i \in 2..Len(b.messages) : b.messages[i] = r.messages[start + i - 1]
      /\ start \in 2..Len(asked) - keep + 1 /\ start \in DOMAIN asked
  <2>1. start \in 2..Len(asked) - keep + 1
    BY <1>3, <1>5
  <2>2. start \in DOMAIN asked
    BY <1>4, <1>6, <2>1
  <2>3. QED BY <1>3, <1>5, <2>1, <2>2 DEF Windowed
<1>10. ASSUME NEW i \in DOMAIN asked
       PROVE  /\ r.messages[i] \in Messages /\ r.messages[i].raw = NoRaw
              /\ asked[i].content.kind = "text" /\ r.messages[i].role = asked[i].role
              /\ MessageText(r.messages[i]) = asked[i].content.text
  <2> DEFINE m == r.messages[i]
             a == asked[i]
  <2>1. m.raw = NoRaw
    BY <1>3, <1>6 DEF HasStructured
  <2>2. a \in Items /\ m = MessageOf(s.dialect, a, s.structured) /\ m # Unread
    BY <1>3
  <2> HIDE DEF m, a
  <2>3. /\ m \in Messages /\ a.content.kind = "text" /\ m.role = a.role
        /\ MessageText(m) = a.content.text
    BY <2>1, <2>2, ProseIs
  <2>4. QED BY <2>1, <2>3 DEF m, a
<1>11. DOMAIN sent = 1..Len(b.messages) /\ 1 \in 1..Len(b.messages)
  <2>1. Len(b.messages) >= 1
    BY <1>4, <1>6, <1>9
  <2>2. QED BY <1>1, <1>8, <2>1
<1>12. FirstSent(asked[start], sent[1], 1 = mark, s) /\ sent[1] \in Items
  <2> DEFINE a == asked[start]
             m == r.messages[start]
             h == b.messages[1]
             n == middle.messages[1]
             d == chosen.messages[1]
             x == sent[1]
             marked == 1 = mark
  <2>1. /\ a \in Items /\ a.content.kind = "text" /\ m \in Messages /\ m.raw = NoRaw
        /\ m.role = a.role /\ MessageText(m) = a.content.text
    BY <1>3, <1>9, <1>10
  <2>2. h = Headed(m, header)
    BY <1>9
  <2>3. n \in Messages /\ d \in Messages /\ MessageAlike(h, n, s) /\ MessageDeduped(n, d)
    BY <1>1, <1>8, <1>11
  <2>4. x = ItemOf(d, marked) /\ marked \in BOOLEAN
    BY <1>1, <1>8, <1>11
  <2> HIDE DEF a, m, h, n, d, x, marked
  <2>5. FirstSent(a, x, marked, s)
    BY <1>7, <2>1, <2>2, <2>3, <2>4, HeadedDelivered
  <2>6. x \in Items
    BY <2>5 DEF FirstSent
  <2>7. QED BY <2>5, <2>6 DEF a, x, marked
<1>13. ASSUME NEW i \in 2..Len(b.messages)
       PROVE  sent[i] \in Items /\ Sent(asked[start + i - 1], sent[i], i = mark, s)
  <2> DEFINE k == start + i - 1
             a == asked[k]
             m == r.messages[k]
             n == middle.messages[i]
             d == chosen.messages[i]
             x == sent[i]
             marked == i = mark
  <2>1. k \in DOMAIN asked /\ i \in DOMAIN b.messages
    <3>1. start \in Nat /\ start >= 2 /\ i \in Nat /\ i >= 2 /\ i <= Len(asked) - start + 1
      BY <1>4, <1>6, <1>8, <1>9
    <3>2. k \in 1..Len(asked)
      BY <1>4, <3>1
    <3>3. QED BY <1>4, <1>8, <3>2
  <2>2. a \in Items /\ m = MessageOf(s.dialect, a, s.structured) /\ m # Unread
    BY <1>3, <2>1
  <2>3. n \in Messages /\ d \in Messages /\ MessageAlike(m, n, s) /\ MessageDeduped(n, d)
    <3>1. b.messages[i] = m
      BY <1>9
    <3>2. QED BY <1>1, <2>1, <3>1
  <2>4. x = ItemOf(d, marked) /\ marked \in BOOLEAN
    BY <1>1, <2>1
  <2> HIDE DEF k, a, m, n, d, x, marked
  <2>5. Sent(a, x, marked, s)
    BY <2>2, <2>3, <2>4, ItemDelivered
  <2>6. x \in Items
    BY <2>5 DEF Sent
  <2>7. QED BY <2>5, <2>6 DEF a, k, x, marked
<1>14. sent \in Seq(Items) /\ Len(sent) = Len(b.messages)
  <2>1. sent = [i \in DOMAIN b.messages |-> sent[i]]
    BY <1>1
  <2>2. \A i \in 1..Len(b.messages) : i = 1 \/ i \in 2..Len(b.messages)
    BY <1>8
  <2>3. sent \in [DOMAIN b.messages -> Items]
    BY <1>8, <1>12, <1>13, <2>1, <2>2
  <2>4. b.messages \in Seq(Messages)
    BY <1>2, RequestFields
  <2>5. QED BY <2>3, <2>4, AsSeq
<1>15. asked[start].role = "user"
  BY <1>5, <1>9, <1>10
<1>16. WindowPaired(t, s, start, mark)
  BY <1>4, <1>6, <1>9, <1>10, <1>12, <1>13, <1>14, <1>15 DEF WindowPaired, asked, sent, keep
<1>17. QED BY <1>16

-----------------------------------------------------------------------------
(* The turn that is with the provider, in every state.                     *)

\* The original goes out, or what the memory and the chain made of it.
SentFor(t, s) ==
    /\ AskedUnder(t, s)
    /\ SentAsIs(t, s) \/ \E middle, chosen, mark : SentAs(t, middle, chosen, mark, s)

TurnSent == setup \in Setups /\ (Sending => SentFor(turn, setup))

LEMMA TurnIsSent == Spec => []TurnSent
<1>1. Init => TurnSent
  BY DEF Init, TurnSent, Sending
<1>2. IInv /\ TurnSent /\ [Next]_vars => TurnSent'
  <2> SUFFICES ASSUME IInv, TurnSent, [Next]_vars PROVE TurnSent'
    OBVIOUS
  <2>1. TurnStep /\ setup \in Setups /\ Sound(graph) /\ setup' = setup
    BY StepIs DEF IInv, TurnStep
  <2>2. CASE UNCHANGED <<turn, last>>
    BY <2>1, <2>2 DEF TurnSent, Sending
  <2>3. CASE turn' = Idle
    BY <2>1, <2>3 DEF TurnSent, Sending
  <2>4. ASSUME NEW items \in Conversations, NEW stream, turn' = Prepared(Body(items), stream)
        PROVE  TurnSent'
    <3>1. SentFor(turn', setup)
      BY <2>1, <2>4, PreparedSends DEF SentFor
    <3>2. QED BY <2>1, <3>1 DEF TurnSent, Sending
  <2>5. QED BY <2>1, <2>2, <2>3, <2>4 DEF TurnStep
<1>3. QED BY <1>1, <1>2, InductiveInvariant, PTL DEF Spec

-----------------------------------------------------------------------------
(* Tool calls stay paired with their results.                              *)

ItemIds(items) == [i \in DOMAIN items |-> IdsOf(items[i].content)]

LEMMA FlattenNone ==
    ASSUME NEW S, NEW t \in Seq(Seq(S)), \A i \in DOMAIN t : t[i] = << >>
    PROVE  FlattenSeq(t) = << >>
<1>1. FlattenSeq(t) \in Seq(S) /\ ToSet(FlattenSeq(t)) = UNION {ToSet(t[i]) : i \in DOMAIN t}
  BY FlattenType, FlattenHolds
<1>2. \A i \in DOMAIN t : ToSet(t[i]) = {}
  BY DEF ToSet
<1>3. QED BY <1>1, <1>2, NothingIn

LEMMA NoToolIds ==
    ASSUME NEW items \in Seq(Items), \A i \in DOMAIN items : IdsOf(items[i].content) = << >>
    PROVE  FlattenSeq(ItemIds(items)) = << >>
<1> DEFINE ids == ItemIds(items)
<1>1. << >> \in Seq(STRING)
  OBVIOUS
<1>2. ids \in [DOMAIN items -> Seq(STRING)] /\ \A i \in DOMAIN items : ids[i] = << >>
  BY <1>1 DEF ItemIds
<1> HIDE DEF ids
<1>3. ids \in Seq(Seq(STRING)) /\ DOMAIN ids = DOMAIN items
  BY <1>2, AsSeq
<1>4. QED BY <1>2, <1>3, FlattenNone DEF ids

LEMMA ProseHasNoIds ==
    ASSUME NEW item \in Items, item.content.kind = "text"
    PROVE  IdsOf(item.content) = << >> /\ CachedBlocks(item.content) = {}
<1>1. item.content \in Contents /\ item.content.blocks = << >>
  BY ItemFields, ContentFields
<1>2. DOMAIN item.content.blocks = {}
  BY <1>1
<1>3. QED BY <1>1, <1>2, NoIds DEF CachedBlocks

LEMMA ToolsStay ==
    ASSUME NEW s \in Setups, NEW t, SentFor(t, s)
    PROVE  ToolIds(t.sent) = ToolIds(t.asked)
<1> DEFINE asked == t.asked.items
           sent == t.sent.items
<1>1. t.asked \in Bodies /\ asked \in Seq(Items)
  BY DEF SentFor, AskedUnder, Bodies
<1>2. ToolIds(t.sent) = FlattenSeq(ItemIds(sent)) /\ ToolIds(t.asked) = FlattenSeq(ItemIds(asked))
  BY DEF ToolIds, ItemIds
<1>3. CASE t.sent = t.asked
  BY <1>3
<1>4. ASSUME NEW middle, NEW chosen, NEW mark, SentAs(t, middle, chosen, mark, s), ~Compacted(t)
      PROVE  ToolIds(t.sent) = ToolIds(t.asked)
  <2>1. Paired(t, s, mark)
    BY <1>1, <1>4, SentPaired
  <2>2. DOMAIN sent = DOMAIN asked /\ \A i \in DOMAIN asked : IdsOf(sent[i].content) = IdsOf(asked[i].content)
    BY <2>1, LenProperties DEF Paired, Sent
  <2> HIDE DEF asked, sent
  <2>3. ItemIds(sent) = ItemIds(asked)
    BY <2>2 DEF ItemIds
  <2>4. QED BY <1>2, <2>3
<1>5. ASSUME NEW middle, NEW chosen, NEW mark, SentAs(t, middle, chosen, mark, s), Compacted(t)
      PROVE  ToolIds(t.sent) = ToolIds(t.asked)
  <2>1. PICK start : WindowPaired(t, s, start, mark)
    BY <1>1, <1>5, SentWindow
  <2>2. /\ asked \in Seq(Items) /\ sent \in Seq(Items)
        /\ \A i \in DOMAIN asked : asked[i].content.kind = "text"
        /\ Len(sent) = Len(asked) - start + 1
        /\ start \in 2..Len(asked) - s.keepRecentTurns + 1
        /\ IdsOf(sent[1].content) = << >>
        /\ \A i \in 2..Len(sent) : IdsOf(sent[i].content) = IdsOf(asked[start + i - 1].content)
    BY <2>1 DEF WindowPaired, FirstSent, Sent
  <2> HIDE DEF asked, sent
  <2>3. DOMAIN asked = 1..Len(asked) /\ DOMAIN sent = 1..Len(sent) /\ Len(asked) \in Nat /\ Len(sent) \in Nat
    BY <2>2, LenProperties
  <2>4. \A i \in DOMAIN asked : asked[i] \in Items /\ IdsOf(asked[i].content) = << >>
    BY <2>2, <2>3, ElementOfSeq, ProseHasNoIds
  <2>5. \A i \in 2..Len(sent) : start + i - 1 \in DOMAIN asked
    <3> SUFFICES ASSUME NEW i \in 2..Len(sent) PROVE start + i - 1 \in DOMAIN asked
      OBVIOUS
    <3>1. start \in Nat /\ start >= 2 /\ i \in Nat /\ i >= 2 /\ i <= Len(asked) - start + 1
      BY <2>2, <2>3, SetupIs
    <3>2. QED BY <2>3, <3>1
  <2>6. \A i \in DOMAIN sent : IdsOf(sent[i].content) = << >>
    <3>1. \A i \in DOMAIN sent : i = 1 \/ i \in 2..Len(sent)
      BY <2>3
    <3>2. QED BY <2>2, <2>4, <2>5, <3>1
  <2>7. QED BY <1>2, <2>2, <2>4, <2>6, NoToolIds
<1>6. QED BY <1>3, <1>4, <1>5 DEF SentFor, SentAsIs

\* Tool calls and results are forwarded, all of them and in their order, for
\* every conversation, setting and memory (engine.py:480-482).
THEOREM ToolPairingHolds == Spec => []ToolPairing
<1>1. TurnSent => ToolPairing
  BY ToolsStay DEF TurnSent, ToolPairing
<1>2. QED BY <1>1, TurnIsSent, PTL

-----------------------------------------------------------------------------
(* The marker of the prompt cache.                                         *)

LEMMA MarksAre ==
    ASSUME NEW body
    PROVE  /\ \A i \in DOMAIN body.items : \A j \in CachedBlocks(body.items[i].content) :
                 <<i, j>> \in MessageMarks(body)
           /\ \A m \in MessageMarks(body) :
                 \E i \in DOMAIN body.items : \E j \in CachedBlocks(body.items[i].content) : m = <<i, j>>
<1>1. MessageMarks(body) = UNION {{<<i, j>> : j \in CachedBlocks(body.items[i].content)} : i \in DOMAIN body.items}
  BY DEF MessageMarks, CachedBlocks
<1>2. QED BY <1>1

\* The item a message was read from has a marker only where the message has.
LEMMA MarkerRead ==
    ASSUME NEW dialect, NEW a \in Items, NEW structured, NEW m,
           m = MessageOf(dialect, a, structured), m # Unread,
           NEW n \in Messages, NEW d \in Messages, NEW s,
           MessageAlike(m, n, s), MessageDeduped(n, d), NEW j \in CachedBlocks(a.content)
    PROVE  d.raw # NoRaw /\ j \in DOMAIN d.raw.content.blocks /\ d.raw.content.blocks[j].cached
<1>1. /\ m \in Messages
      /\ m.raw = NoRaw => a.content.kind = "text"
      /\ m.raw # NoRaw => m.raw = a
  BY MessageOfIs DEF IsTextItem
<1>2. m.raw # NoRaw
  BY <1>1, ProseHasNoIds
<1>3. d.raw # NoRaw /\ BlocksAlike(a.content.blocks, d.raw.content.blocks, s)
  BY <1>1, <1>2, RawDelivered
<1>4. j \in DOMAIN a.content.blocks /\ a.content.blocks[j].cached
  BY DEF CachedBlocks
<1>5. a.content.blocks \in Seq(Blocks) /\ d.raw.content.blocks \in Seq(Blocks)
  BY <1>3, ItemFields, ContentFields, MessageFields
<1>6. DOMAIN a.content.blocks = DOMAIN d.raw.content.blocks
  BY <1>3, <1>5, LenProperties DEF BlocksAlike
<1>7. d.raw.content.blocks[j].cached = a.content.blocks[j].cached
  BY <1>3, <1>4 DEF BlocksAlike, BlockAlike
<1>8. QED BY <1>3, <1>4, <1>6, <1>7

\* One marker at most is new, that of the breakpoint, where the tools are the same.
LEMMA OneMarker ==
    ASSUME NEW t, NEW s, NEW mark, NEW sent, sent = t.sent.items,
           ToolMarks(t.sent) = ToolMarks(t.asked),
           MessageMarks(t.asked) \subseteq MessageMarks(t.sent),
           \A m \in MessageMarks(t.sent) \ MessageMarks(t.asked) :
              /\ mark \in DOMAIN sent /\ m = <<mark, Len(sent[mark].content.blocks)>>,
           mark \in DOMAIN sent => /\ s.dialect = "anthropic" /\ s.inject /\ MessageMarks(t.asked) = {}
                                   /\ mark = Len(sent) - 1
    PROVE  Placed(t, s)
<1> DEFINE had == CacheMarks(t.asked)
           added == CacheMarks(t.sent) \ had
           place == <<mark, Len(sent[mark].content.blocks)>>
<1>1. \A m \in added : mark \in DOMAIN sent /\ m = place
  <2>1. \A m \in added : m \in MessageMarks(t.sent) \ MessageMarks(t.asked)
    BY DEF CacheMarks
  <2>2. QED BY <2>1
<1>2. place[1] = mark /\ place[2] = Len(sent[place[1]].content.blocks)
  OBVIOUS
<1>3. had \subseteq CacheMarks(t.sent)
  BY DEF CacheMarks
<1>4. MessageMarks(t.asked) = {} => had = ToolMarks(t.asked)
  BY DEF CacheMarks
<1> HIDE DEF place, had, added
<1>5. ASSUME added # {}
      PROVE  /\ s.dialect = "anthropic" /\ s.inject /\ had = ToolMarks(t.asked)
             /\ \E m \in added : /\ added = {m} /\ m[1] = Len(sent) - 1
                                 /\ m[2] = Len(sent[m[1]].content.blocks)
  <2>1. place \in added /\ added = {place} /\ mark \in DOMAIN sent
    BY <1>1, <1>5
  <2>2. place[1] = Len(sent) - 1 /\ place[2] = Len(sent[place[1]].content.blocks)
    BY <1>2, <2>1
  <2>3. s.dialect = "anthropic" /\ s.inject /\ had = ToolMarks(t.asked)
    BY <1>4, <2>1
  <2>4. QED BY <2>1, <2>2, <2>3
<1>6. QED BY <1>3, <1>5 DEF Placed, added, had

LEMMA DialectStays ==
    ASSUME NEW t, NEW s, NEW middle, NEW chosen, NEW mark, SentAs(t, middle, chosen, mark, s)
    PROVE  chosen.dialect = s.dialect /\ chosen.tools = t.asked.tools /\ s.dialect \in Dialects
<1>1. /\ Reads(t.canonical, s.dialect, t.asked, s.structured)
      /\ MemoryStep(t.canonical, t.working, s)
  BY DEF SentAs, ReadAs
<1>2. t.canonical.dialect = s.dialect /\ t.canonical.tools = t.asked.tools /\ s.dialect \in Dialects
  BY <1>1 DEF Reads
<1>3. t.working.dialect = t.canonical.dialect /\ t.working.tools = t.canonical.tools
  BY <1>1 DEF MemoryStep, Windowed
<1>4. chosen.dialect = t.working.dialect /\ chosen.tools = t.working.tools
  <2>1. DeliveredAs(t, middle, chosen, mark, s)
    BY Delivered
  <2>2. QED BY <2>1 DEF DeliveredAs
<1>5. QED BY <1>2, <1>3, <1>4

\* Where no message of a request is marked, none was of the body it was read of.
LEMMA NothingMarked ==
    ASSUME NEW s \in Setups, NEW t, AskedUnder(t, s),
           NEW middle, NEW chosen, NEW mark, SentAs(t, middle, chosen, mark, s),
           ~HasCacheControl(chosen)
    PROVE  MessageMarks(t.asked) = {}
<1> DEFINE asked == t.asked.items
<1>1. t.asked \in Bodies /\ asked \in Seq(Items) /\ DOMAIN asked = 1..Len(asked) /\ Len(asked) \in Nat
  <2>1. t.asked \in Bodies /\ asked \in Seq(Items)
    BY DEF AskedUnder, Bodies
  <2>2. QED BY <2>1, LenProperties
<1>2. CASE ~Compacted(t)
  <2>1. Reads(t.canonical, s.dialect, t.asked, s.structured) /\ t.working = t.canonical
    BY <1>2 DEF SentAs, ReadAs, Compacted
  <2>2. SUFFICES ASSUME NEW m \in MessageMarks(t.asked) PROVE FALSE
    OBVIOUS
  <2>3. PICK i \in DOMAIN asked : \E j \in CachedBlocks(asked[i].content) : m = <<i, j>>
    BY MarksAre DEF asked
  <2>4. PICK j \in CachedBlocks(asked[i].content) : m = <<i, j>>
    BY <2>3
  <2> DEFINE a == asked[i]
             mes == t.canonical.messages[i]
             n == middle.messages[i]
             d == chosen.messages[i]
  <2>5. a \in Items /\ mes = MessageOf(s.dialect, a, s.structured) /\ mes # Unread
        /\ i \in DOMAIN t.working.messages
    BY <2>1 DEF Reads, asked
  <2>6. n \in Messages /\ d \in Messages /\ MessageAlike(mes, n, s) /\ MessageDeduped(n, d)
        /\ i \in DOMAIN chosen.messages
    <3>1. DeliveredAs(t, middle, chosen, mark, s)
      BY Delivered
    <3>2. QED BY <2>1, <2>5, <3>1 DEF DeliveredAs
  <2>7. j \in CachedBlocks(a.content)
    BY <2>4
  <2> HIDE DEF a, mes, n, d
  <2>8. d.raw # NoRaw /\ j \in DOMAIN d.raw.content.blocks /\ d.raw.content.blocks[j].cached
    BY <2>5, <2>6, <2>7, MarkerRead
  <2>9. QED BY <2>6, <2>8 DEF HasCacheControl, d
<1>3. CASE Compacted(t)
  <2>1. \A i \in DOMAIN asked : asked[i].content.kind = "text"
    BY <1>1, <1>3, SentWindow DEF WindowPaired
  <2>2. \A i \in DOMAIN asked : asked[i] \in Items
    BY <1>1, ElementOfSeq
  <2>3. \A i \in DOMAIN asked : CachedBlocks(asked[i].content) = {}
    BY <2>1, <2>2, ProseHasNoIds
  <2>4. QED BY <2>3, MarksAre
<1>4. QED BY <1>2, <1>3

LEMMA MarkerPlaced ==
    ASSUME NEW s \in Setups, NEW t, SentFor(t, s)
    PROVE  Placed(t, s)
<1> DEFINE asked == t.asked.items
           sent == t.sent.items
<1>1. t.asked \in Bodies /\ asked \in Seq(Items) /\ DOMAIN asked = 1..Len(asked) /\ Len(asked) \in Nat
  <2>1. t.asked \in Bodies /\ asked \in Seq(Items)
    BY DEF SentFor, AskedUnder, Bodies
  <2>2. QED BY <2>1, LenProperties
<1>2. CASE t.sent = t.asked
  BY <1>2 DEF Placed
<1>3. ASSUME NEW middle, NEW chosen, NEW mark, SentAs(t, middle, chosen, mark, s)
      PROVE  Placed(t, s)
  <2>1. /\ chosen.dialect = s.dialect
        /\ sent = [i \in DOMAIN chosen.messages |-> ItemOf(chosen.messages[i], i = mark)]
        /\ chosen \in Requests /\ Marking(chosen, mark, s) /\ t.sent.tools = t.asked.tools
    <3>1. DeliveredAs(t, middle, chosen, mark, s)
      BY <1>3, Delivered
    <3>2. chosen.dialect = s.dialect
      BY <1>3, DialectStays
    <3>3. chosen \in Requests /\ Marking(chosen, mark, s) /\ t.sent.tools = t.asked.tools
      BY <1>3 DEF SentAs, Delivers
    <3>4. QED BY <3>1, <3>2, <3>3 DEF DeliveredAs
  <2>2. DOMAIN chosen.messages = 1..Len(chosen.messages) /\ Len(chosen.messages) \in Nat
    BY <2>1, RequestFields
  <2> HIDE DEF asked, sent
  <2>3. DOMAIN sent = 1..Len(chosen.messages)
    BY <2>1, <2>2
  <2>4. mark \in DOMAIN sent =>
           /\ s.dialect = "anthropic" /\ s.inject /\ ~HasCacheControl(chosen)
           /\ mark = Len(chosen.messages) - 1
    BY <2>1, <2>3 DEF Marking
  <2> DEFINE tools == ToolMarks(t.sent) = ToolMarks(t.asked)
  <2>5. tools
    BY <2>1 DEF ToolMarks
  <2> HIDE DEF tools
  <2>6. CASE ~Compacted(t)
    <3>1. Paired(t, s, mark)
      BY <1>1, <1>3, <2>6, SentPaired
    <3>2. /\ asked \in Seq(Items) /\ sent \in Seq(Items) /\ Len(sent) = Len(asked)
          /\ \A i \in DOMAIN asked : Sent(asked[i], sent[i], i = mark, s)
      BY <3>1 DEF Paired, asked, sent
    <3>3. DOMAIN sent = DOMAIN asked /\ Len(sent) = Len(chosen.messages)
      BY <2>2, <2>3, <3>2, LenProperties
    <3>4. MessageMarks(t.asked) \subseteq MessageMarks(t.sent)
      <4>1. \A i \in DOMAIN asked : CachedBlocks(asked[i].content) \subseteq CachedBlocks(sent[i].content)
        BY <3>2 DEF Sent
      <4>2. SUFFICES ASSUME NEW m \in MessageMarks(t.asked) PROVE m \in MessageMarks(t.sent)
        OBVIOUS
      <4>3. PICK i \in DOMAIN asked : \E j \in CachedBlocks(asked[i].content) : m = <<i, j>>
        BY MarksAre DEF asked
      <4>4. PICK j \in CachedBlocks(asked[i].content) : m = <<i, j>>
        BY <4>3
      <4>5. i \in DOMAIN sent /\ j \in CachedBlocks(sent[i].content)
        BY <3>3, <4>1, <4>4
      <4>6. QED BY <4>4, <4>5, MarksAre DEF sent
    <3>5. ASSUME NEW m \in MessageMarks(t.sent) \ MessageMarks(t.asked)
          PROVE  mark \in DOMAIN sent /\ m = <<mark, Len(sent[mark].content.blocks)>>
      <4>1. PICK i \in DOMAIN sent : \E j \in CachedBlocks(sent[i].content) : m = <<i, j>>
        BY MarksAre DEF sent
      <4>2. PICK j \in CachedBlocks(sent[i].content) : m = <<i, j>>
        BY <4>1
      <4>3. j \notin CachedBlocks(asked[i].content)
        BY <3>3, <4>2, MarksAre DEF asked
      <4>4. i = mark /\ j = Len(sent[i].content.blocks)
        BY <3>2, <3>3, <4>2, <4>3 DEF Sent
      <4>5. QED BY <4>2, <4>4
    <3>6. ~HasCacheControl(chosen) => MessageMarks(t.asked) = {}
      BY <1>3, NothingMarked DEF SentFor
    <3>7. QED BY <2>4, <2>5, <3>3, <3>4, <3>5, <3>6, OneMarker DEF sent, tools
  <2>7. CASE Compacted(t)
    <3>1. PICK start : WindowPaired(t, s, start, mark)
      BY <1>1, <1>3, <2>7, SentWindow
    <3>2. /\ sent \in Seq(Items) /\ \A i \in DOMAIN asked : asked[i].content.kind = "text"
          /\ Len(sent) = Len(asked) - start + 1
          /\ start \in 2..Len(asked) - s.keepRecentTurns + 1
          /\ FirstSent(asked[start], sent[1], 1 = mark, s)
          /\ \A i \in 2..Len(sent) : Sent(asked[start + i - 1], sent[i], i = mark, s)
      BY <3>1 DEF WindowPaired, asked, sent
    <3>3. DOMAIN sent = 1..Len(sent) /\ Len(sent) \in Nat /\ Len(sent) = Len(chosen.messages)
      BY <2>2, <2>3, <3>2, LenProperties
    <3>4. \A i \in DOMAIN asked : CachedBlocks(asked[i].content) = {}
      <4>1. \A i \in DOMAIN asked : asked[i] \in Items
        BY <1>1, ElementOfSeq DEF asked
      <4>2. QED BY <3>2, <4>1, ProseHasNoIds
    <3>5. MessageMarks(t.asked) = {}
      BY <3>4, MarksAre DEF asked
    <3>6. ASSUME NEW i \in DOMAIN sent, NEW j \in CachedBlocks(sent[i].content)
          PROVE  i = mark /\ j = Len(sent[i].content.blocks)
      <4>1. CASE i = 1
        BY <3>2, <3>6, <4>1 DEF FirstSent
      <4>2. CASE i \in 2..Len(sent)
        <5>1. start + i - 1 \in DOMAIN asked
          <6>1. start \in Nat /\ start >= 2 /\ i \in Nat /\ i >= 2 /\ i <= Len(asked) - start + 1
            BY <1>1, <3>2, <3>3, <4>2, SetupIs DEF asked
          <6>2. start + i - 1 \in 1..Len(asked)
            BY <1>1, <6>1 DEF asked
          <6>3. QED BY <1>1, <6>2 DEF asked
        <5>2. CachedBlocks(asked[start + i - 1].content) = {}
          BY <3>4, <5>1
        <5>3. Sent(asked[start + i - 1], sent[i], i = mark, s)
          BY <3>2, <4>2
        <5>4. QED BY <3>6, <5>2, <5>3 DEF Sent
      <4>3. QED BY <3>3, <4>1, <4>2
    <3>7. ASSUME NEW m \in MessageMarks(t.sent) \ MessageMarks(t.asked)
          PROVE  mark \in DOMAIN sent /\ m = <<mark, Len(sent[mark].content.blocks)>>
      <4>1. PICK i \in DOMAIN sent : \E j \in CachedBlocks(sent[i].content) : m = <<i, j>>
        BY MarksAre DEF sent
      <4>2. QED BY <3>6, <4>1
    <3>8. QED BY <2>4, <2>5, <3>3, <3>5, <3>7, OneMarker DEF sent, tools
  <2>8. QED BY <2>6, <2>7
<1>4. QED BY <1>2, <1>3 DEF SentFor, SentAsIs

\* Injection adds one marker at most, where the cacheable prefix ends, for
\* Anthropic only, and not where the client has marked a message; the client's
\* own markers all stay, on messages and on tools (engine.py:563-587,
\* dialects.py:282-348).  The code does not look at tools for that.
THEOREM BreakpointPlacedHolds == Spec => []BreakpointPlaced
<1>1. TurnSent => BreakpointPlaced
  BY MarkerPlaced DEF TurnSent, BreakpointPlaced
<1>2. QED BY <1>1, TurnIsSent, PTL

-----------------------------------------------------------------------------
(* What is forwarded says what was asked.                                  *)

LEMMA KeptAsIs ==
    ASSUME NEW a \in Items, NEW s
    PROVE  ItemKept(a, a, s)
<1>1. a.content \in Contents
  BY ItemFields
<1>2. a.content.kind = "text" => AllText(a.content) = a.content.text
  BY <1>1, AllTextIs
<1>3. \A i \in DOMAIN a.content.blocks : BlockKept(a.content.blocks[i], a.content.blocks[i], s)
  BY DEF BlockKept
<1>4. ContentKept(a.content, a.content, s)
  BY <1>2, <1>3 DEF ContentKept
<1>5. QED BY <1>4 DEF ItemKept

LEMMA SystemStays ==
    ASSUME NEW s \in Setups, NEW t, AskedUnder(t, s),
           NEW middle, NEW chosen, NEW mark, SentAs(t, middle, chosen, mark, s)
    PROVE  /\ t.sent.system.kind = t.asked.system.kind
           /\ Essence(t.sent.system.text, s) = Essence(t.asked.system.text, s)
<1> DEFINE asked == t.asked.system
           sent == t.sent.system
<1>1. /\ t.canonical.system = IF s.dialect = "openai" \/ asked.kind = "none"
                              THEN NoSystem ELSE asked.text
      /\ s.dialect # "openai" => asked.kind # "other"
  BY DEF SentAs, ReadAs, Reads
<1>2. t.working.system = t.canonical.system
  BY DEF SentAs, MemoryStep, Windowed
<1>3. /\ t.working.system = NoSystem <=> middle.system = NoSystem
      /\ t.working.system # NoSystem => Alike(t.working.system, middle.system, Droppable(s))
  BY DEF SentAs, Delivers, RequestAlike
<1>4. chosen.system = middle.system /\ chosen.dialect = s.dialect
  <2>1. DeliveredAs(t, middle, chosen, mark, s)
    BY Delivered
  <2>2. QED BY <2>1, DialectStays DEF DeliveredAs
<1>5. sent = IF chosen.dialect # "openai" /\ chosen.system # NoSystem
             THEN Content("text", chosen.system, << >>) ELSE asked
  BY DEF SentAs, Delivers
<1>6. asked.kind \in {"none", "text", "other"}
  BY SetupIs DEF AskedUnder
<1> HIDE DEF asked, sent
<1>7. CASE chosen.dialect # "openai" /\ chosen.system # NoSystem
  <2>1. sent = Content("text", chosen.system, << >>)
    BY <1>5, <1>7
  <2>2. sent.kind = "text" /\ sent.text = chosen.system
    BY <2>1 DEF Content
  <2>3. asked.kind = "text" /\ Alike(asked.text, chosen.system, Droppable(s))
    BY <1>1, <1>2, <1>3, <1>4, <1>6, <1>7
  <2>4. Essence(sent.text, s) = Essence(asked.text, s)
    BY <2>2, <2>3, EssenceIs DEF Alike
  <2>5. QED BY <2>2, <2>3, <2>4 DEF asked, sent
<1>8. CASE ~(chosen.dialect # "openai" /\ chosen.system # NoSystem)
  BY <1>5, <1>8 DEF asked, sent
<1>9. QED BY <1>7, <1>8

LEMMA AskedIsSent ==
    ASSUME NEW s \in Setups, NEW t, SentFor(t, s)
    PROVE  Faithful(t, s)
<1> DEFINE asked == t.asked.items
           sent == t.sent.items
           dropped == Len(asked) - Len(sent)
<1>1. t.asked \in Bodies /\ asked \in Seq(Items) /\ DOMAIN asked = 1..Len(asked) /\ Len(asked) \in Nat
  <2>1. t.asked \in Bodies /\ asked \in Seq(Items)
    BY DEF SentFor, AskedUnder, Bodies
  <2>2. QED BY <2>1, LenProperties
<1>2. CASE t.sent = t.asked
  <2>1. dropped = 0
    BY <1>1, <1>2
  <2>2. \A i \in DOMAIN sent : dropped + i = i /\ asked[i] \in Items
    BY <1>1, <1>2, <2>1, ElementOfSeq
  <2>3. \A i \in DOMAIN sent : ItemKept(asked[dropped + i], sent[i], s)
    BY <1>2, <2>2, KeptAsIs
  <2>4. QED BY <1>2, <2>1, <2>3 DEF Faithful
<1>3. ASSUME NEW middle, NEW chosen, NEW mark, SentAs(t, middle, chosen, mark, s)
      PROVE  Faithful(t, s)
  <2>1. /\ t.sent.system.kind = t.asked.system.kind
        /\ Essence(t.sent.system.text, s) = Essence(t.asked.system.text, s)
    BY <1>3, SystemStays DEF SentFor
  <2>2. CASE ~Compacted(t)
    <3>1. Paired(t, s, mark)
      BY <1>1, <1>3, <2>2, SentPaired
    <3>2. /\ sent \in Seq(Items) /\ Len(sent) = Len(asked)
          /\ \A i \in DOMAIN asked : Sent(asked[i], sent[i], i = mark, s)
      BY <3>1 DEF Paired
    <3>3. dropped = 0 /\ DOMAIN sent = DOMAIN asked
      BY <1>1, <3>2, LenProperties
    <3> HIDE DEF dropped
    <3>4. \A i \in DOMAIN sent : dropped + i = i
      BY <1>1, <3>3
    <3>5. \A i \in DOMAIN sent : ItemKept(asked[dropped + i], sent[i], s)
      BY <3>2, <3>3, <3>4 DEF Sent
    <3>6. QED BY <2>1, <3>3, <3>5 DEF Faithful, dropped
  <2>3. CASE Compacted(t)
    <3>1. PICK start : WindowPaired(t, s, start, mark)
      BY <1>1, <1>3, <2>3, SentWindow
    <3>2. /\ sent \in Seq(Items) /\ Len(sent) = Len(asked) - start + 1
          /\ start \in 2..Len(asked) - s.keepRecentTurns + 1
          /\ \A i \in 2..Len(sent) : Sent(asked[start + i - 1], sent[i], i = mark, s)
      BY <3>1 DEF WindowPaired
    <3>3. DOMAIN sent = 1..Len(sent) /\ Len(sent) \in Nat /\ start \in Nat
      BY <1>1, <3>2, LenProperties, SetupIs
    <3>4. \A i \in DOMAIN sent : i = 1 \/ (i \in 2..Len(sent) /\ dropped + i = start + i - 1)
      BY <1>1, <3>2, <3>3
    <3> HIDE DEF dropped
    <3>5. \A i \in DOMAIN sent : i = 1 \/ ItemKept(asked[dropped + i], sent[i], s)
      BY <3>2, <3>4 DEF Sent
    <3>6. QED BY <2>1, <2>3, <3>5 DEF Faithful, dropped
  <2>4. QED BY <2>2, <2>3
<1>4. QED BY <1>2, <1>3 DEF SentFor, SentAsIs

\* Whatever the passes and the memory do to a request, it says what was asked
\* (compress/, memory/compaction.py, proxy/dialects.py): the same roles, words
\* and code, message by message, but for what a setting lets a pass leave out.
THEOREM SaysWhatWasAskedHolds == Spec => []SaysWhatWasAsked
<1>1. TurnSent => SaysWhatWasAsked
  BY AskedIsSent DEF TurnSent, SaysWhatWasAsked
<1>2. QED BY <1>1, TurnIsSent, PTL

-----------------------------------------------------------------------------
(* The window of a compacted request.                                      *)

LEMMA WindowIsValid ==
    ASSUME NEW s \in Setups, NEW t, SentFor(t, s), Compacted(t), Replaced(t)
    PROVE  ValidWindow(t, s)
<1> DEFINE asked == t.asked.items
           sent == t.sent.items
<1>1. t.asked \in Bodies /\ asked \in Seq(Items) /\ DOMAIN asked = 1..Len(asked) /\ Len(asked) \in Nat
  <2>1. t.asked \in Bodies /\ asked \in Seq(Items)
    BY DEF SentFor, AskedUnder, Bodies
  <2>2. QED BY <2>1, LenProperties
<1>2. PICK middle, chosen, mark : SentAs(t, middle, chosen, mark, s)
  BY DEF SentFor, SentAsIs, Replaced
<1>3. PICK start : WindowPaired(t, s, start, mark)
  BY <1>1, <1>2, SentWindow
<1>4. /\ sent \in Seq(Items) /\ Len(sent) = Len(asked) - start + 1
      /\ s.keepRecentTurns \in Int
      /\ start \in 2..Len(asked) - s.keepRecentTurns + 1
      /\ asked[start].role = "user" /\ asked[start].content.kind = "text"
      /\ FirstSent(asked[start], sent[1], 1 = mark, s)
  <2>1. /\ sent \in Seq(Items) /\ Len(sent) = Len(asked) - start + 1
        /\ s.keepRecentTurns \in Int /\ s.keepRecentTurns > 0
        /\ start \in 2..Len(asked) - s.keepRecentTurns + 1
        /\ asked[start].role = "user" /\ FirstSent(asked[start], sent[1], 1 = mark, s)
        /\ \A i \in DOMAIN asked : asked[i].content.kind = "text"
    BY <1>3 DEF WindowPaired
  <2>2. start \in DOMAIN asked
    BY <1>1, <2>1
  <2>3. QED BY <2>1, <2>2
<1>5. Len(sent) >= s.keepRecentTurns /\ Len(asked) - Len(sent) + 1 = start /\ start \in DOMAIN asked
  <2>1. s.keepRecentTurns > 0
    BY <1>3 DEF WindowPaired
  <2> DEFINE a == Len(asked)
             k == s.keepRecentTurns
             n == Len(sent)
  <2>2. a \in Nat /\ k \in Int /\ k > 0 /\ start \in 2..a - k + 1 /\ n = a - start + 1
        /\ DOMAIN asked = 1..a
    BY <1>1, <1>4, <2>1
  <2> HIDE DEF a, k, n
  <2>3. n >= k /\ a - n + 1 = start /\ start \in 1..a
    BY <2>2
  <2>4. QED BY <2>2, <2>3 DEF a, k, n
<1>6. asked[start] \in Items
  BY <1>1, <1>5, ElementOfSeq
<1>7. AllText(asked[start].content) = asked[start].content.text
  BY <1>4, <1>6, ItemFields, AllTextIs
<1>8. /\ sent[1].role = "user"
      /\ \/ Marks(AllText(sent[1].content))
         \/ IsSuffix(Essence(AllText(asked[start].content), s), Essence(AllText(sent[1].content), s))
  BY <1>4, <1>7 DEF FirstSent
<1> HIDE DEF asked, sent
<1>9. QED BY <1>5, <1>8 DEF ValidWindow, asked, sent

\* A compacted request is one a provider takes (memory/compaction.py:5-10), where
\* it is what goes out: it starts with the user and holds the latest messages,
\* the first of them after what the memory has put before it.
THEOREM WindowValidHolds == Spec => []WindowValid
<1>1. TurnSent => WindowValid
  BY WindowIsValid DEF TurnSent, WindowValid
<1>2. QED BY <1>1, TurnIsSent, PTL

-----------------------------------------------------------------------------
(* What dedup leaves out can still be read.                                *)

LEMMA Slice ==
    ASSUME NEW S, NEW s \in Seq(S), NEW k \in Nat, NEW l \in Nat, k + l <= Len(s),
           NEW m, m = k + 1, NEW n, n = k + l
    PROVE  /\ SubSeq(s, m, n) \in Seq(S) /\ Len(SubSeq(s, m, n)) = l
           /\ \A j \in 1..l : SubSeq(s, m, n)[j] = s[k + j]
<1>1. m \in Int /\ n \in Int /\ n - m + 1 = l /\ (m <= n <=> l # 0)
  OBVIOUS
<1>2. \A i \in m..n : i \in 1..Len(s)
  BY LenProperties
<1>3. \A i \in m..n : s[i] \in S
  BY <1>2, ElementOfSeq
<1>4. /\ SubSeq(s, m, n) \in Seq(S)
      /\ Len(SubSeq(s, m, n)) = IF m <= n THEN n - m + 1 ELSE 0
      /\ \A i \in 1..n - m + 1 : SubSeq(s, m, n)[i] = s[m + i - 1]
  BY <1>1, <1>3, SubSeqProperties
<1>5. \A j \in 1..l : m + j - 1 = k + j
  OBVIOUS
<1>6. QED BY <1>1, <1>4, <1>5

LEMMA Rest ==
    ASSUME NEW S, NEW s \in Seq(S), NEW i \in 1..Len(s)
    PROVE  /\ SubSeq(s, i + 1, Len(s)) \in Seq(S) /\ Len(SubSeq(s, i + 1, Len(s))) = Len(s) - i
           /\ \A j \in 1..Len(s) - i : SubSeq(s, i + 1, Len(s))[j] = s[i + j]
<1> DEFINE l == Len(s) - i
           m == i + 1
           n == Len(s)
<1>1. i \in Nat /\ l \in Nat /\ i + l <= Len(s) /\ n = i + l /\ m = i + 1
  BY LenProperties
<1> HIDE DEF l, m, n
<1>2. /\ SubSeq(s, m, n) \in Seq(S) /\ Len(SubSeq(s, m, n)) = l
      /\ \A j \in 1..l : SubSeq(s, m, n)[j] = s[i + j]
  BY <1>1, Slice
<1>3. QED BY <1>2 DEF l, m, n

LEMMA HoldsMiddle ==
    ASSUME NEW S, NEW x \in Seq(S), NEW y \in Seq(S), NEW z \in Seq(S)
    PROVE  Holds((x \o y) \o z, y)
<1>1. /\ x \o y \in Seq(S) /\ Len(x \o y) = Len(x) + Len(y)
      /\ Len(x) \in Nat /\ Len(y) \in Nat /\ Len(z) \in Nat
      /\ \A i \in 1..Len(y) : (x \o y)[Len(x) + i] = y[i]
  BY ConcatProperties, LenProperties
<1> DEFINE front == x \o y
           text == front \o z
<1>2. /\ front \in Seq(S) /\ Len(front) = Len(x) + Len(y)
      /\ \A i \in 1..Len(y) : front[Len(x) + i] = y[i]
  BY <1>1
<1> HIDE DEF front
<1>3. /\ text \in Seq(S) /\ Len(text) = Len(front) + Len(z)
      /\ \A i \in 1..Len(front) : text[i] = front[i]
  <2>1. \A i \in 1..Len(front) : i \in 1..(Len(front) + Len(z)) /\ i <= Len(front)
    BY <1>1, <1>2
  <2>2. QED BY <1>2, <2>1, ConcatProperties
<1> HIDE DEF text
<1>4. \A i \in 1..Len(y) : text[Len(x) + i] = y[i]
  <2>1. \A i \in 1..Len(y) : Len(x) + i \in 1..Len(front)
    BY <1>1, <1>2
  <2>2. QED BY <1>2, <1>3, <2>1
<1> DEFINE part == SubSeq(text, Len(x) + 1, Len(x) + Len(y))
<1>5. part \in Seq(S) /\ Len(part) = Len(y) /\ \A i \in 1..Len(y) : part[i] = text[Len(x) + i]
  <2>1. Len(x) + Len(y) <= Len(text)
    BY <1>1, <1>2, <1>3
  <2>2. QED BY <1>1, <1>3, <2>1, Slice
<1> HIDE DEF part
<1>6. part = y
  BY <1>4, <1>5, SeqEqual
<1>7. Len(x) \in 0..Len(text) - Len(y)
  BY <1>1, <1>2, <1>3
<1>8. QED BY <1>6, <1>7 DEF Holds, part, text, front

\* Every part of a text is in it.
LEMMA FlattenAround ==
    ASSUME NEW S, NEW t \in Seq(Seq(S)), NEW i \in DOMAIN t
    PROVE  \E x \in Seq(S), z \in Seq(S) : t[i] \in Seq(S) /\ FlattenSeq(t) = (x \o t[i]) \o z
<1>1. DOMAIN t = 1..Len(t) /\ Len(t) \in Nat
  BY LenProperties
<1> DEFINE a == SubSeq(t, 1, i)
           b == SubSeq(t, i + 1, Len(t))
           k == i - 1
<1>2. k \in Nat /\ k < Len(t) /\ k + 1 = i
  BY <1>1
<1> HIDE DEF k
<1>3. /\ FlattenSeq(SubSeq(t, 1, k)) \in Seq(S) /\ t[i] \in Seq(S)
      /\ FlattenSeq(a) = FlattenSeq(SubSeq(t, 1, k)) \o t[i]
  <2>1. /\ FlattenSeq(SubSeq(t, 1, k)) \in Seq(S) /\ t[k + 1] \in Seq(S)
        /\ FlattenSeq(SubSeq(t, 1, k + 1)) = FlattenSeq(SubSeq(t, 1, k)) \o t[k + 1]
    BY <1>2, FlattenPart
  <2>2. QED BY <1>2, <2>1
<1>4. /\ a \in Seq(Seq(S)) /\ Len(a) = i /\ \A j \in 1..i : a[j] = t[j]
  <2>1. \A j \in 1..i : t[j] \in Seq(S)
    BY <1>1, ElementOfSeq
  <2>2. i \in Int /\ 1 <= i /\ i - 1 + 1 = i
    BY <1>1
  <2>3. \A j \in 1..i : 1 + j - 1 = j
    BY <1>1
  <2>4. /\ SubSeq(t, 1, i) \in Seq(Seq(S)) /\ Len(SubSeq(t, 1, i)) = i
        /\ \A j \in 1..i : SubSeq(t, 1, i)[j] = t[1 + j - 1]
    BY <2>1, <2>2, SubSeqProperties
  <2>5. QED BY <2>3, <2>4
<1>5. /\ b \in Seq(Seq(S)) /\ Len(b) = Len(t) - i /\ \A j \in 1..Len(t) - i : b[j] = t[i + j]
  <2>1. i \in 1..Len(t)
    BY <1>1
  <2>2. QED BY <2>1, Rest
<1> HIDE DEF a, b
<1>6. t = a \o b
  <2>1. /\ a \o b \in Seq(Seq(S)) /\ Len(a \o b) = Len(t)
        /\ \A j \in 1..Len(t) : (a \o b)[j] = IF j <= i THEN a[j] ELSE b[j - i]
    <3>1. /\ a \o b \in Seq(Seq(S)) /\ Len(a \o b) = Len(a) + Len(b)
          /\ \A j \in 1..Len(a) + Len(b) : (a \o b)[j] = IF j <= Len(a) THEN a[j] ELSE b[j - Len(a)]
      BY <1>4, <1>5, ConcatProperties
    <3>2. Len(a) + Len(b) = Len(t)
      BY <1>1, <1>4, <1>5
    <3>3. QED BY <1>4, <3>1, <3>2
  <2>2. ASSUME NEW j \in 1..Len(t) PROVE (a \o b)[j] = t[j]
    <3>1. CASE j <= i
      BY <1>1, <1>4, <2>1, <3>1
    <3>2. CASE ~(j <= i)
      <4>1. j - i \in 1..Len(t) - i /\ i + (j - i) = j
        BY <1>1, <3>2
      <4>2. QED BY <1>5, <2>1, <3>2, <4>1
    <3>3. QED BY <3>1, <3>2
  <2>3. QED BY <2>1, <2>2, SeqEqual
<1>7. FlattenSeq(b) \in Seq(S) /\ FlattenSeq(t) = FlattenSeq(a) \o FlattenSeq(b)
  BY <1>4, <1>5, <1>6, FlattenType, FlattenConcat
<1>8. QED BY <1>3, <1>7

LEMMA EssenceHolds ==
    ASSUME NEW t \in Seq(Texts), NEW i \in DOMAIN t, NEW s
    PROVE  Holds(Essence(FlattenSeq(t), s), Essence(t[i], s))
<1> DEFINE drop == Droppable(s)
<1>1. t \in Seq(Seq(STRING))
  BY DEF Texts
<1>2. PICK x \in Seq(STRING), z \in Seq(STRING) :
             t[i] \in Seq(STRING) /\ FlattenSeq(t) = (x \o t[i]) \o z
  BY <1>1, FlattenAround
<1> DEFINE y == t[i]
           whole == FlattenSeq(t)
<1>3. y \in Seq(STRING) /\ whole = (x \o y) \o z
  BY <1>2
<1>4. Essence(whole, s) = Sifted(whole, drop) /\ Essence(y, s) = Sifted(y, drop)
  BY EssenceIs
<1> HIDE DEF y, whole, drop
<1>5. x \o y \in Seq(STRING)
  BY <1>3, ConcatProperties
<1>6. Sifted(whole, drop) = (Sifted(x, drop) \o Sifted(y, drop)) \o Sifted(z, drop)
  <2> DEFINE xy == x \o y
  <2>1. xy \in Seq(STRING) /\ whole = xy \o z
    BY <1>3, <1>5
  <2>p. x \in Seq(STRING) /\ y \in Seq(STRING)
    BY <1>2, <1>3
  <2>2. Sifted(x \o y, drop) = Sifted(x, drop) \o Sifted(y, drop)
    BY ONLY <2>p, SiftedConcat
  <2>3. Sifted(xy, drop) = Sifted(x, drop) \o Sifted(y, drop)
    BY <2>2
  <2> HIDE DEF xy
  <2>4. Sifted(xy \o z, drop) = Sifted(xy, drop) \o Sifted(z, drop)
    BY <2>1, SiftedConcat
  <2>5. QED BY <2>1, <2>3, <2>4
<1>7. Sifted(x, drop) \in Seq(STRING) /\ Sifted(y, drop) \in Seq(STRING) /\ Sifted(z, drop) \in Seq(STRING)
  BY <1>3, SiftedType
<1>8. Holds(Essence(whole, s), Essence(y, s))
  BY <1>4, <1>6, <1>7, HoldsMiddle
<1>9. QED BY <1>8 DEF y, whole

\* A span of a message of prose is in what the message says.
LEMMA SpanHeld ==
    ASSUME NEW m \in Messages, m.raw = NoRaw, NEW j \in DOMAIN m.spans, NEW s
    PROVE  Holds(Essence(MessageText(m), s), Essence(m.spans[j].text, s))
<1>1. m.spans \in Seq(SpanSet) /\ MessageText(m) = SpansText(m.spans)
  BY MessageFields DEF MessageText
<1> DEFINE t == SpanTexts(m.spans)
<1>2. t \in Seq(Texts) /\ SpansText(m.spans) = FlattenSeq(t) /\ DOMAIN t = DOMAIN m.spans
      /\ t[j] = m.spans[j].text
  BY <1>1, SpanTextsType DEF SpanTexts
<1> HIDE DEF t
<1>3. Holds(Essence(FlattenSeq(t), s), Essence(t[j], s))
  BY <1>2, EssenceHolds
<1>4. QED BY <1>1, <1>2, <1>3

\* Of equal spans, one is the first, which dedup leaves alone.
LEMMA FirstCopy ==
    ASSUME NEW r \in Requests, NEW p \in Places(r)
    PROVE  \E q \in Places(r) : /\ q[1] <= p[1] /\ SpanAt(r, q).text = SpanAt(r, p).text
                                /\ ~Repeats(r, q)
<1> DEFINE same == {q \in Places(r) : SpanAt(r, q).text = SpanAt(r, p).text}
           rows == {q[1] : q \in same}
           i == Min(rows)
           cols == {q[2] : q \in {x \in same : x[1] = i}}
           j == Min(cols)
<1>1. /\ DOMAIN r.messages = 1..Len(r.messages) /\ Len(r.messages) \in Nat
      /\ \A k \in DOMAIN r.messages : r.messages[k] \in Messages
  BY RequestFields
<1>2. p \in same /\ rows # {} /\ p[1] \in rows
  OBVIOUS
<1>3. rows \subseteq 1..Len(r.messages)
  BY <1>1, PlacesAre
<1> HIDE DEF rows, same
<1>4. i \in rows /\ \A y \in rows : i <= y
  BY <1>1, <1>2, <1>3, Extremes
<1>5. i \in DOMAIN r.messages
  BY <1>1, <1>3, <1>4
<1> HIDE DEF i
<1>6. cols # {}
  BY <1>4 DEF rows
<1>7. DOMAIN r.messages[i].spans = 1..Len(r.messages[i].spans) /\ Len(r.messages[i].spans) \in Nat
  BY <1>1, <1>5, MessageFields, LenProperties
<1>8. cols \subseteq 1..Len(r.messages[i].spans)
  BY <1>7, PlacesAre DEF same
<1> HIDE DEF cols
<1>9. j \in cols /\ \A y \in cols : j <= y
  BY <1>6, <1>7, <1>8, Extremes
<1> HIDE DEF j
<1>10. PICK q \in same : q[1] = i /\ q[2] = j
  BY <1>9 DEF cols
<1>11. q \in Places(r) /\ SpanAt(r, q).text = SpanAt(r, p).text
  BY <1>10 DEF same
<1>12. q[1] <= p[1]
  BY <1>2, <1>4, <1>10
<1>13. ~Repeats(r, q)
  <2> SUFFICES ASSUME NEW x \in Places(r), Before(x, q), SpanAt(r, x).text = SpanAt(r, q).text
               PROVE  FALSE
    BY DEF Repeats
  <2>1. x \in same
    BY <1>11 DEF same
  <2>2. i <= x[1]
    BY <1>4, <2>1 DEF rows
  <2>3. x[1] = i => j <= x[2]
    BY <1>9, <2>1 DEF cols
  <2>4. x[1] \in Nat /\ x[2] \in Nat /\ i \in Nat /\ j \in Nat
    BY <1>1, <1>5, <1>7, <1>8, <1>9, PlacesAre
  <2>5. QED BY <1>10, <2>2, <2>3, <2>4 DEF Before
<1>14. QED BY <1>11, <1>12, <1>13

LEMMA PlaceIs ==
    ASSUME NEW r \in Requests, NEW p \in Places(r)
    PROVE  /\ p = <<p[1], p[2]>> /\ p[1] \in DOMAIN r.messages
           /\ r.messages[p[1]] \in Messages /\ r.messages[p[1]].raw = NoRaw
           /\ p[2] \in DOMAIN r.messages[p[1]].spans
           /\ SpanAt(r, p) = r.messages[p[1]].spans[p[2]]
           /\ p[1] \in Nat /\ p[1] >= 1
<1> DEFINE m == r.messages[p[1]]
<1>1. p = <<p[1], p[2]>> /\ p[1] \in DOMAIN r.messages /\ p[2] \in DOMAIN m.spans
  BY PlacesAre
<1>2. m \in Messages /\ p[1] \in Nat /\ p[1] >= 1
  BY <1>1, RequestFields
<1> HIDE DEF m
<1>3. m.raw = NoRaw
  <2>1. m.raw # NoRaw => m.spans = << >>
    BY <1>2, MessageFields
  <2>2. DOMAIN m.spans # {}
    BY <1>1
  <2>3. QED BY <2>1, <2>2
<1>4. QED BY <1>1, <1>2, <1>3 DEF m, SpanAt

\* A span the chain worked on is in what is sent, there or before.
LEMMA SentHolds ==
    ASSUME NEW t, NEW s, NEW middle, NEW chosen, NEW mark, SentAs(t, middle, chosen, mark, s),
           NEW p \in Places(t.working)
    PROVE  \E k \in 1..p[1] :
              Holds(Essence(AllText(t.sent.items[k].content), s), Essence(SpanAt(t.working, p).text, s))
<1> DEFINE w == t.working
           m == w.messages[p[1]]
           n == middle.messages[p[1]]
<1>1. /\ w \in Requests /\ middle \in Requests /\ chosen \in Requests
      /\ chosen = middle \/ Deduped(middle, chosen, s)
  BY DEF SentAs, Delivers
<1>2. DeliveredAs(t, middle, chosen, mark, s)
  BY Delivered
<1>3. /\ p = <<p[1], p[2]>> /\ p[1] \in DOMAIN w.messages /\ p[1] \in Nat
      /\ m \in Messages /\ m.raw = NoRaw /\ p[2] \in DOMAIN m.spans
      /\ SpanAt(w, p) = m.spans[p[2]]
  <2> HIDE DEF w
  <2>1. QED BY <1>1, PlaceIs DEF w
<1>4. n \in Messages /\ MessageAlike(m, n, s)
      /\ p[1] \in DOMAIN middle.messages
  <2>1. n \in Messages /\ MessageAlike(m, n, s)
    BY <1>2, <1>3 DEF DeliveredAs
  <2>2. DOMAIN w.messages = DOMAIN middle.messages
    <3>1. Len(w.messages) = Len(middle.messages)
      BY DEF SentAs, Delivers, RequestAlike
    <3> HIDE DEF w
    <3>2. QED BY <1>1, <3>1, RequestFields
  <2>3. QED BY <1>3, <2>1, <2>2
<1> HIDE DEF w, m, n
<1>5. /\ p[2] \in DOMAIN n.spans
      /\ Essence(m.spans[p[2]].text, s) = Essence(n.spans[p[2]].text, s)
  <2>1. SpansAlike(m.spans, n.spans, Droppable(s))
    BY <1>3, <1>4 DEF MessageAlike
  <2>2. m.spans \in Seq(SpanSet) /\ n.spans \in Seq(SpanSet)
    BY <1>3, <1>4, MessageFields
  <2>3. DOMAIN m.spans = DOMAIN n.spans
    BY <2>1, <2>2, LenProperties DEF SpansAlike
  <2>4. QED BY <1>3, <2>1, <2>3, EssenceIs DEF SpansAlike, Alike
<1>6. p \in Places(middle) /\ SpanAt(middle, p) = n.spans[p[2]]
  <2>1. <<p[1], p[2]>> \in Places(middle)
    BY <1>1, <1>4, <1>5, PlacesAre DEF n
  <2>2. QED BY <1>3, <2>1 DEF SpanAt, n
<1>7. PICK q \in Places(middle) :
         /\ q[1] <= p[1] /\ SpanAt(middle, q).text = SpanAt(middle, p).text /\ ~Repeats(middle, q)
  BY <1>1, <1>6, FirstCopy
<1> DEFINE k == q[1]
           l == q[2]
           o == middle.messages[k]
           d == chosen.messages[k]
           x == t.sent.items[k]
           marked == k = mark
<1>8. /\ q = <<k, l>> /\ k \in DOMAIN middle.messages /\ k \in Nat /\ k >= 1
      /\ o \in Messages /\ o.raw = NoRaw /\ l \in DOMAIN o.spans
      /\ SpanAt(middle, q) = o.spans[l]
  BY <1>1, PlaceIs
<1>9. /\ d \in Messages /\ MessageDeduped(o, d) /\ x = ItemOf(d, marked) /\ marked \in BOOLEAN
  <2>1. DOMAIN w.messages = DOMAIN middle.messages
    <3>1. Len(w.messages) = Len(middle.messages)
      BY DEF SentAs, Delivers, RequestAlike, w
    <3>2. QED BY <1>1, <3>1, RequestFields
  <2>2. k \in DOMAIN w.messages /\ k \in DOMAIN chosen.messages
    BY <1>2, <1>8, <2>1 DEF DeliveredAs, w
  <2>3. QED BY <1>2, <2>2 DEF DeliveredAs, w
<1>10. d.spans[l] = o.spans[l] /\ d.raw = NoRaw /\ l \in DOMAIN d.spans
  <2>1. CASE chosen = middle
    BY <1>8, <2>1
  <2>2. CASE Deduped(middle, chosen, s)
    <3>1. ~Redundant(middle, <<k, l>>, s)
      BY <1>7, <1>8 DEF Redundant
    <3>2. d.spans[l] = o.spans[l]
      BY <1>8, <2>2, <3>1 DEF Deduped
    <3>3. DOMAIN d.spans = DOMAIN o.spans
      <4>1. Len(o.spans) = Len(d.spans) /\ o.spans \in Seq(SpanSet) /\ d.spans \in Seq(SpanSet)
        BY <1>8, <1>9, MessageFields DEF MessageDeduped
      <4>2. QED BY <4>1, LenProperties
    <3>4. QED BY <1>8, <1>9, <3>2, <3>3 DEF MessageDeduped
  <2>3. QED BY <1>1, <2>1, <2>2
<1> HIDE DEF k, l, o, d, x, marked
<1>11. AllText(x.content) = MessageText(d)
  BY <1>9, <1>10, ProseItemIs
<1>12. Holds(Essence(MessageText(d), s), Essence(d.spans[l].text, s))
  BY <1>9, <1>10, SpanHeld
<1>13. Essence(d.spans[l].text, s) = Essence(SpanAt(w, p).text, s)
  BY <1>3, <1>5, <1>6, <1>7, <1>8, <1>10
<1>14. k \in 1..p[1]
  BY <1>3, <1>7, <1>8 DEF k
<1>15. Holds(Essence(AllText(x.content), s), Essence(SpanAt(w, p).text, s))
  BY <1>11, <1>12, <1>13
<1>16. QED BY <1>14, <1>15 DEF x, w

LEMMA AllRecoverable ==
    ASSUME NEW s \in Setups, NEW t, SentFor(t, s), Replaced(t)
    PROVE  Recoverable(t, s)
<1>1. PICK middle, chosen, mark : SentAs(t, middle, chosen, mark, s)
  BY DEF SentFor, SentAsIs, Replaced
<1>2. QED BY <1>1, SentHolds DEF Recoverable

\* What dedup leaves out can still be read, for any sizes and markers
\* (dedup.py:6-12): where it is not the original that goes out, the first copy of
\* a repeated span is forwarded, in the same message or in an earlier one.
THEOREM DedupRecoverableHolds == Spec => []DedupRecoverable
<1>1. TurnSent => DedupRecoverable
  BY AllRecoverable DEF TurnSent, DedupRecoverable
<1>2. QED BY <1>1, TurnIsSent, PTL

-----------------------------------------------------------------------------
(* What is counted is what is forwarded.                                   *)

\* The message that a text is read as, or the one that anything else is.
TextMessage(item) == [role |-> item.role, spans |-> Spans(item.content.text), raw |-> NoRaw]
RawMessage(dialect, item) == [role |-> RoleOf(dialect, item.role), spans |-> << >>, raw |-> item]

\* What an item counts as when it is read.
ReadText(dialect, item) == IF IsTextItem(dialect, item) THEN item.content.text ELSE ItemJson(item)

\* With structured messages kept, every item can be read.
LEMMA ReadItem ==
    ASSUME NEW dialect, NEW item \in Items, NEW m,
           m = IF IsTextItem(dialect, item) THEN TextMessage(item) ELSE RawMessage(dialect, item)
    PROVE  m \in Messages /\ m # Unread /\ MessageText(m) = ReadText(dialect, item)
<1>1. item.role \in STRING /\ item.content \in Contents /\ item.content.text \in Texts
  BY ItemFields, ContentFields
<1>2. NoRaw \notin Items /\ Unread \notin Messages
  BY TokenAssumption
<1>3. CASE IsTextItem(dialect, item)
  <2>1. m = [role |-> item.role, spans |-> Spans(item.content.text), raw |-> NoRaw]
    BY <1>3 DEF TextMessage
  <2>2. Spans(item.content.text) \in Seq(SpanSet) /\ SpansText(Spans(item.content.text)) = item.content.text
    BY <1>1, SpansSayText
  <2>3. m \in Messages
    BY <1>1, <2>1, <2>2 DEF Messages
  <2>4. MessageText(m) = item.content.text
    BY <2>1, <2>2 DEF MessageText
  <2>5. QED BY <1>2, <1>3, <2>3, <2>4 DEF ReadText
<1>4. CASE ~IsTextItem(dialect, item)
  <2>1. m = [role |-> RoleOf(dialect, item.role), spans |-> << >>, raw |-> item]
    BY <1>4 DEF RawMessage
  <2>2. RoleOf(dialect, item.role) \in STRING
    BY <1>1, Strings DEF RoleOf
  <2>3. m \in Messages
    <3> DEFINE role == RoleOf(dialect, item.role)
    <3>1. role \in STRING /\ << >> \in Seq(SpanSet) /\ item \in Items
      BY <2>2, EmptySeq
    <3> HIDE DEF role
    <3>2. [role |-> role, spans |-> << >>, raw |-> item] \in Messages
      BY ONLY <3>1 DEF Messages
    <3>3. QED BY <2>1, <3>2 DEF role
  <2>4. MessageText(m) = ItemJson(item)
    BY <1>2, <2>1 DEF MessageText
  <2>5. QED BY <1>2, <1>4, <2>3, <2>4 DEF ReadText
<1>5. QED BY <1>3, <1>4

\* The system prompt that is read of a body.
SystemRead(dialect, body) ==
    IF dialect = "openai" \/ body.system.kind = "none" THEN NoSystem ELSE body.system.text

\* A body that holds the texts of a request.
HoldsTexts(body, dialect, r) ==
    /\ body.items \in Seq(Items) /\ Len(body.items) = Len(r.messages)
    /\ \A i \in DOMAIN body.items :
          /\ Known(dialect, body.items[i].role)
          /\ ReadText(dialect, body.items[i]) = MessageText(r.messages[i])
    /\ dialect # "openai" => body.system.kind # "other"
    /\ SystemRead(dialect, body) = r.system

LEMMA ReadAgain ==
    ASSUME NEW r \in Requests, NEW dialect \in Dialects, NEW body, HoldsTexts(body, dialect, r)
    PROVE  RequestText(Parsed(dialect, body, TRUE)) = RequestText(r)
<1> DEFINE items == body.items
           messages == [i \in DOMAIN items |-> MessageOf(dialect, items[i], TRUE)]
           p == Parsed(dialect, body, TRUE)
<1>1. /\ items \in Seq(Items) /\ DOMAIN items = 1..Len(items) /\ Len(items) = Len(r.messages)
      /\ \A i \in DOMAIN items : items[i] \in Items
  <2>1. items \in Seq(Items) /\ Len(items) = Len(r.messages)
    BY DEF HoldsTexts
  <2> HIDE DEF items
  <2>2. QED BY <2>1, LenProperties, ElementOfSeq
<1>2. DOMAIN r.messages = DOMAIN items
  BY <1>1, RequestFields
<1>3. \A i \in DOMAIN items :
         /\ messages[i] # Unread
         /\ MessageText(messages[i]) = MessageText(r.messages[i])
  <2> SUFFICES ASSUME NEW i \in DOMAIN items
               PROVE  /\ messages[i] # Unread
                      /\ MessageText(messages[i]) = MessageText(r.messages[i])
    OBVIOUS
  <2>1. /\ items[i] \in Items
        /\ messages[i] = IF IsTextItem(dialect, items[i]) THEN TextMessage(items[i])
                         ELSE RawMessage(dialect, items[i])
    BY <1>1 DEF MessageOf, IsTextItem, TextMessage, RawMessage
  <2>2. ReadText(dialect, items[i]) = MessageText(r.messages[i])
    BY DEF HoldsTexts
  <2> HIDE DEF messages, items
  <2>3. messages[i] # Unread /\ MessageText(messages[i]) = ReadText(dialect, items[i])
    BY <2>1, ReadItem
  <2>4. QED BY <2>2, <2>3
<1>4. p = [dialect |-> dialect, system |-> SystemRead(dialect, body), messages |-> messages,
           tools |-> body.tools, breakpoint |-> 0]
  BY <1>3 DEF Parsed, HoldsTexts, SystemRead
<1>5. DOMAIN messages = DOMAIN items
  OBVIOUS
<1> HIDE DEF messages, p, items
<1>6. p.system = r.system /\ p.messages = messages
  BY <1>4 DEF HoldsTexts
<1>7. MessageTexts(p.messages) = MessageTexts(r.messages)
  BY <1>2, <1>3, <1>5, <1>6 DEF MessageTexts
<1>8. RequestText(p) = SystemText(p) \o FlattenSeq(MessageTexts(p.messages))
  BY DEF RequestText, SystemText, MessageTexts
<1>9. SystemText(p) = SystemText(r)
  BY <1>6 DEF SystemText
<1>10. QED BY <1>7, <1>8, <1>9, RequestTextIs DEF p

\* What a message says goes out as it is.
SaidBy(m) == IF m.raw = NoRaw THEN MessageText(m) ELSE AllText(m.raw.content)

LEMMA TextSent ==
    ASSUME NEW m \in Messages, NEW marked \in BOOLEAN, NEW x, x = ItemOf(m, marked)
    PROVE  AllText(x.content) = SaidBy(m)
<1>1. CASE m.raw = NoRaw
  BY <1>1, ProseItemIs DEF SaidBy
<1>2. CASE m.raw # NoRaw
  <2>1. x \in Items /\ SameButMarker(m.raw, x, marked) /\ m.raw \in Items
    BY <1>2, RawItemIs, MessageFields
  <2>2. AllText(x.content) = AllText(m.raw.content)
    BY <2>1, SameAllText
  <2>3. QED BY <1>2, <2>2 DEF SaidBy
<1>3. QED BY <1>1, <1>2

\* A message that reads as itself where it goes out without a new marker.
Legible(dialect, m) ==
    IF m.raw = NoRaw THEN m.role \in TextRoles(dialect) ELSE ~IsTextItem(dialect, m.raw)

LEMMA ReadsBack ==
    ASSUME NEW dialect, NEW m \in Messages, Legible(dialect, m), NEW x, x = ItemOf(m, FALSE)
    PROVE  ReadText(dialect, x) = MessageText(m)
<1>1. CASE m.raw = NoRaw
  <2>1. x.role = m.role /\ x.content.kind = "text" /\ x.content.text = MessageText(m)
    BY <1>1, ProseItemIs
  <2>2. QED BY <1>1, <2>1 DEF Legible, ReadText, IsTextItem
<1>2. CASE m.raw # NoRaw
  <2>1. x = m.raw
    BY <1>2 DEF ItemOf
  <2>2. QED BY <1>2, <2>1 DEF Legible, ReadText, MessageText
<1>3. QED BY <1>1, <1>2

\* What was read stays legible, whatever the memory and the chain make of it.
LEMMA StaysLegible ==
    ASSUME NEW s \in Setups, NEW t,
           NEW middle, NEW chosen, NEW mark, SentAs(t, middle, chosen, mark, s)
    PROVE  \A i \in DOMAIN chosen.messages :
              chosen.messages[i] \in Messages /\ Legible(s.dialect, chosen.messages[i])
<1> DEFINE r == t.canonical
           w == t.working
<1>1. /\ Reads(r, s.dialect, t.asked, s.structured) /\ r \in Requests /\ w \in Requests
      /\ MemoryStep(r, w, s)
  BY DEF SentAs, ReadAs
<1>2. ASSUME NEW i \in DOMAIN r.messages
      PROVE  r.messages[i] \in Messages /\ Legible(s.dialect, r.messages[i])
  <2> DEFINE a == t.asked.items[i]
             m == r.messages[i]
  <2>1. a \in Items /\ m = MessageOf(s.dialect, a, s.structured) /\ m # Unread
    BY <1>1, <1>2 DEF Reads
  <2> HIDE DEF a, m
  <2>2. m \in Messages /\ Legible(s.dialect, m)
    BY <2>1, MessageOfIs DEF Legible, IsTextItem
  <2>3. QED BY <2>2 DEF m
<1> HIDE DEF r, w
<1>3. ASSUME NEW i \in DOMAIN w.messages PROVE Legible(s.dialect, w.messages[i])
  <2>1. CASE w = r
    BY <1>2, <1>3, <2>1
  <2>2. CASE w # r
    <3>1. PICK start \in 2..Len(r.messages) - s.keepRecentTurns + 1, header \in Seq(Clean) :
              Windowed(r, w, start, header)
      BY <1>1, <2>2 DEF MemoryStep
    <3>2. /\ start \in 2..Len(r.messages) /\ Len(w.messages) = Len(r.messages) - start + 1
          /\ w.messages[1] = Headed(r.messages[start], header)
          /\ \A k \in 2..Len(w.messages) : w.messages[k] = r.messages[start + k - 1]
      BY <3>1 DEF Windowed
    <3>3. /\ DOMAIN r.messages = 1..Len(r.messages) /\ Len(r.messages) \in Nat
          /\ DOMAIN w.messages = 1..Len(w.messages) /\ Len(w.messages) \in Nat
      BY <1>1, RequestFields
    <3>4. CASE i = 1
      <4> DEFINE m == r.messages[start]
      <4>1. start \in DOMAIN r.messages
        BY <3>2, <3>3
      <4>2. m \in Messages /\ Legible(s.dialect, m) /\ m.raw = NoRaw
        BY <1>1, <1>2, <2>2, <4>1 DEF MemoryStep, HasStructured
      <4>3. header \in Texts
        BY DEF Clean, Texts
      <4> HIDE DEF m
      <4>4. Headed(m, header).role = m.role /\ Headed(m, header).raw = NoRaw
        BY <4>2, <4>3, HeadedIs
      <4>5. QED BY <3>2, <3>4, <4>2, <4>4 DEF Legible, m
    <3>5. CASE i \in 2..Len(w.messages)
      <4>1. start + i - 1 \in DOMAIN r.messages
        BY <3>2, <3>3, <3>5
      <4>2. QED BY <1>2, <3>2, <3>5, <4>1
    <3>6. QED BY <1>3, <3>3, <3>4, <3>5
  <2>3. QED BY <2>1, <2>2
<1>4. DeliveredAs(t, middle, chosen, mark, s)
  BY Delivered
<1>5. ASSUME NEW i \in DOMAIN chosen.messages
      PROVE  chosen.messages[i] \in Messages /\ Legible(s.dialect, chosen.messages[i])
  <2> DEFINE m == w.messages[i]
             n == middle.messages[i]
             d == chosen.messages[i]
  <2>1. /\ m \in Messages /\ n \in Messages /\ d \in Messages
        /\ MessageAlike(m, n, s) /\ MessageDeduped(n, d) /\ i \in DOMAIN w.messages
    BY <1>4, <1>5 DEF DeliveredAs, w
  <2>2. Legible(s.dialect, m)
    BY <1>3, <2>1
  <2> HIDE DEF m, n, d
  <2>3. CASE m.raw = NoRaw
    <3>1. d.raw = NoRaw /\ d.role = m.role
      BY <2>1, <2>3 DEF MessageAlike, MessageDeduped
    <3>2. QED BY <2>1, <2>2, <2>3, <3>1 DEF Legible, d
  <2>4. CASE m.raw # NoRaw
    <3>1. d.raw # NoRaw /\ d.raw.role = m.raw.role /\ d.raw.content.kind = m.raw.content.kind
      BY <2>1, <2>4, RawDelivered
    <3>2. QED BY <2>1, <2>2, <2>4, <3>1 DEF Legible, IsTextItem, d
  <2>5. QED BY <2>3, <2>4
<1>6. QED BY <1>5

\* An item that was marked and holds no marker is as if it had not been.
LEMMA MarkedOrNot ==
    ASSUME NEW m \in Messages, NEW x, x = ItemOf(m, TRUE), CachedBlocks(x.content) = {}
    PROVE  x = ItemOf(m, FALSE)
<1>1. CASE m.raw = NoRaw
  <2>1. /\ x \in Items /\ Len(x.content.blocks) = 1
        /\ x.content.blocks[1] = TextBlock(MessageText(m), TRUE)
    BY <1>1, ProseItemIs
  <2> DEFINE blocks == x.content.blocks
             block == TextBlock(MessageText(m), TRUE)
  <2>2. blocks \in Seq(Blocks) /\ Len(blocks) = 1 /\ blocks[1] = block
    BY <2>1, ItemFields, ContentFields
  <2>3. block.cached
    BY DEF TextBlock
  <2> HIDE DEF blocks, block
  <2>4. 1 \in DOMAIN blocks /\ blocks[1].cached
    BY <2>2, <2>3, LenProperties
  <2>5. QED BY <2>4 DEF CachedBlocks, blocks
<1>2. CASE m.raw # NoRaw
  <2> DEFINE a == m.raw
             n == Len(a.content.blocks)
  <2>1. a \in Items /\ x = Marked(a) /\ ItemOf(m, FALSE) = a
    BY <1>2, MessageFields DEF ItemOf
  <2>2. CASE a.content.kind = "blocks" /\ a.content.blocks # << >>
    <3> HIDE DEF a
    <3>1. SameButMarker(a, x, TRUE) /\ x \in Items
      BY <2>1, MarkedIs
    <3>2. a.content.blocks \in Seq(Blocks) /\ x.content.blocks \in Seq(Blocks)
      BY <2>1, <3>1, ItemFields, ContentFields
    <3>3. n \in DOMAIN a.content.blocks /\ DOMAIN x.content.blocks = DOMAIN a.content.blocks
      <4>1. n \in Nat /\ DOMAIN a.content.blocks = 1..n /\ DOMAIN x.content.blocks = 1..Len(x.content.blocks)
        BY <3>2, LenProperties
      <4>2. n # 0
        BY <2>2, <3>2
      <4>3. Len(x.content.blocks) = n
        BY <3>1 DEF SameButMarker
      <4> DEFINE dom == DOMAIN x.content.blocks
                 here == DOMAIN a.content.blocks
      <4>4. n \in Nat /\ n # 0 /\ here = 1..n /\ dom = 1..n
        BY <4>1, <4>2, <4>3
      <4> HIDE DEF n, dom, here
      <4>5. n \in here /\ dom = here
        BY ONLY <4>4
      <4>6. QED BY <4>5 DEF dom, here
    <3>4. x.content.blocks[n].cached
      BY <2>2, <3>1, <3>3 DEF SameButMarker
    <3>5. QED BY <3>3, <3>4 DEF CachedBlocks
  <2>3. CASE ~(a.content.kind = "blocks" /\ a.content.blocks # << >>)
    BY <2>1, <2>3 DEF Marked
  <2>4. QED BY <2>2, <2>3
<1>3. QED BY <1>1, <1>2

\* No marker was added.
Unmoved(t) == CacheMarks(t.sent) = CacheMarks(t.asked)

LeftUnmarked(sent, chosen) ==
    \A i \in DOMAIN chosen.messages : sent[i] = ItemOf(chosen.messages[i], FALSE)

\* Every message then goes out as it would without one.
LEMMA NotMarked ==
    ASSUME NEW s \in Setups, NEW t, AskedUnder(t, s),
           NEW middle, NEW chosen, NEW mark, SentAs(t, middle, chosen, mark, s),
           Unmoved(t)
    PROVE  LeftUnmarked(t.sent.items, chosen)
<1> DEFINE sent == t.sent.items
<1>1. /\ chosen \in Requests /\ Marking(chosen, mark, s)
      /\ sent = [i \in DOMAIN chosen.messages |-> ItemOf(chosen.messages[i], i = mark)]
  BY DEF SentAs, Delivers
<1>2. SUFFICES ASSUME NEW i \in DOMAIN chosen.messages
               PROVE  sent[i] = ItemOf(chosen.messages[i], FALSE)
  BY DEF LeftUnmarked
<1> DEFINE m == chosen.messages[i]
           x == sent[i]
<1>3. m \in Messages /\ x = ItemOf(m, i = mark) /\ i \in DOMAIN sent /\ i \in Nat /\ i >= 1
  BY <1>1, RequestFields
<1>4. CASE i # mark
  <2>1. (i = mark) = FALSE
    BY <1>4
  <2>2. QED BY <1>3, <2>1
<1>5. CASE i = mark
  <2>1. ~HasCacheControl(chosen)
    BY <1>1, <1>3, <1>5 DEF Marking
  <2>2. MessageMarks(t.asked) = {}
    BY <2>1, NothingMarked
  <2>3. CachedBlocks(x.content) = {}
    <3> SUFFICES ASSUME NEW j \in CachedBlocks(x.content) PROVE FALSE
      OBVIOUS
    <3>1. <<i, j>> \in CacheMarks(t.asked)
      BY <1>3, MarksAre DEF CacheMarks, Unmoved
    <3>2. <<i, j>> \in ToolMarks(t.asked)
      BY <2>2, <3>1 DEF CacheMarks
    <3>3. PICK k : <<i, j>> = <<0, k>>
      BY <3>2 DEF ToolMarks
    <3>4. i = 0
      BY <3>3
    <3>5. QED BY <1>3, <3>4
  <2>4. x = ItemOf(m, TRUE)
    <3>1. (i = mark) = TRUE
      BY <1>5
    <3>2. QED BY <1>3, <3>1
  <2> HIDE DEF m, x
  <2>5. x = ItemOf(m, FALSE)
    BY <1>3, <2>3, <2>4, MarkedOrNot
  <2>6. QED BY <2>5 DEF m, x
<1>6. QED BY <1>4, <1>5

\* What is sent is read as what was asked is.
LEMMA KnownSent ==
    ASSUME NEW s \in Setups, NEW t, AskedUnder(t, s),
           NEW middle, NEW chosen, NEW mark, SentAs(t, middle, chosen, mark, s)
    PROVE  /\ t.sent.items \in Seq(Items)
           /\ \A i \in DOMAIN t.sent.items : Known(s.dialect, t.sent.items[i].role)
<1> DEFINE asked == t.asked.items
           sent == t.sent.items
<1>1. t.asked \in Bodies /\ DOMAIN asked = 1..Len(asked) /\ Len(asked) \in Nat
  <2>1. t.asked \in Bodies /\ asked \in Seq(Items)
    BY DEF AskedUnder, Bodies
  <2>2. QED BY <2>1, LenProperties
<1>2. \A i \in DOMAIN asked : Known(s.dialect, asked[i].role)
  BY DEF SentAs, ReadAs, Reads
<1>3. CASE ~Compacted(t)
  <2>1. Paired(t, s, mark)
    BY <1>1, <1>3, SentPaired
  <2>2. sent \in Seq(Items) /\ Len(sent) = Len(asked)
    BY <2>1 DEF Paired
  <2>3. DOMAIN sent = DOMAIN asked
    BY <1>1, <2>2, LenProperties
  <2>4. \A i \in DOMAIN asked : sent[i].role = asked[i].role
    BY <2>1 DEF Paired, Sent, ItemKept
  <2>5. QED BY <1>2, <2>2, <2>3, <2>4
<1>4. CASE Compacted(t)
  <2>1. PICK start : WindowPaired(t, s, start, mark)
    BY <1>1, <1>4, SentWindow
  <2>2. /\ sent \in Seq(Items) /\ Len(sent) = Len(asked) - start + 1
        /\ start \in 2..Len(asked) - s.keepRecentTurns + 1 /\ start \in DOMAIN asked
        /\ sent[1].role = asked[start].role
        /\ \A i \in 2..Len(sent) : sent[i].role = asked[start + i - 1].role
    BY <2>1 DEF WindowPaired, FirstSent, Sent, ItemKept
  <2>3. DOMAIN sent = 1..Len(sent) /\ Len(sent) \in Nat /\ start \in Nat
    <3>1. sent \in Seq(Items) BY <2>2
    <3>2. DOMAIN sent = 1..Len(sent) /\ Len(sent) \in Nat
      BY ONLY <3>1, LenProperties
    <3>3. start \in 1..Len(asked) /\ Len(asked) \in Nat
      BY <1>1, <2>2
    <3>4. start \in Nat BY ONLY <3>3
    <3>5. QED BY <3>2, <3>4
  <2>4. \A i \in DOMAIN sent : i = 1 \/ (i \in 2..Len(sent) /\ start + i - 1 \in DOMAIN asked)
    <3> DEFINE n == Len(asked)
               k == Len(sent)
    <3>1. /\ n \in Nat /\ k \in Nat /\ start \in 1..n /\ k = n - start + 1
          /\ DOMAIN sent = 1..k /\ DOMAIN asked = 1..n
      BY <1>1, <2>2, <2>3
    <3> HIDE DEF n, k
    <3>2. \A i \in 1..k : i = 1 \/ (i \in 2..k /\ start + i - 1 \in 1..n)
      BY <3>1
    <3>3. QED BY <3>1, <3>2 DEF n, k
  <2>5. QED BY <1>2, <2>2, <2>4
<1>5. QED BY <1>3, <1>4

LEMMA SystemSent ==
    ASSUME NEW s \in Setups, NEW t, AskedUnder(t, s),
           NEW middle, NEW chosen, NEW mark, SentAs(t, middle, chosen, mark, s)
    PROVE  /\ s.dialect # "openai" => t.sent.system.kind # "other"
           /\ SystemRead(s.dialect, t.sent) = chosen.system
<1> DEFINE asked == t.asked.system
           sent == t.sent.system
<1>1. /\ t.canonical.system = IF s.dialect = "openai" \/ asked.kind = "none"
                              THEN NoSystem ELSE asked.text
      /\ s.dialect # "openai" => asked.kind # "other"
  BY DEF SentAs, ReadAs, Reads
<1>2. t.working.system = t.canonical.system
  BY DEF SentAs, MemoryStep, Windowed
<1>3. t.working.system = NoSystem <=> middle.system = NoSystem
  BY DEF SentAs, Delivers, RequestAlike
<1>4. chosen.system = middle.system /\ chosen.dialect = s.dialect
  <2>1. DeliveredAs(t, middle, chosen, mark, s)
    BY Delivered
  <2>2. QED BY <2>1, DialectStays DEF DeliveredAs
<1>5. sent = IF chosen.dialect # "openai" /\ chosen.system # NoSystem
             THEN Content("text", chosen.system, << >>) ELSE asked
  BY DEF SentAs, Delivers
<1>6. asked.text \in Texts /\ NoSystem \notin Texts
  <2>1. asked \in Contents
    BY DEF AskedUnder, Bodies
  <2>2. QED BY <2>1, ContentFields, TokenAssumption
<1> HIDE DEF asked, sent
<1>7. CASE s.dialect = "openai"
  BY <1>1, <1>2, <1>3, <1>4, <1>7 DEF SystemRead
<1>8. CASE s.dialect # "openai" /\ chosen.system # NoSystem
  <2>1. sent.kind = "text" /\ sent.text = chosen.system
    BY <1>4, <1>5, <1>8 DEF Content
  <2>2. QED BY <1>8, <2>1 DEF SystemRead, sent
<1>9. CASE s.dialect # "openai" /\ chosen.system = NoSystem
  <2>1. sent = asked /\ asked.kind = "none"
    BY <1>1, <1>2, <1>3, <1>4, <1>5, <1>6, <1>9
  <2>2. QED BY <1>9, <2>1 DEF SystemRead, sent
<1>10. QED BY <1>7, <1>8, <1>9

LEMMA SentIsCounted ==
    ASSUME NEW s \in Setups, NEW t, SentFor(t, s), t.canonical # Unread,
           Unmoved(t), ~Compacted(t) \/ Replaced(t)
    PROVE  Size(Parsed(s.dialect, t.sent, TRUE), s) = t.after
<1>1. CASE SentAsIs(t, s) /\ ~Compacted(t)
  <2> DEFINE r == t.canonical
             items == t.asked.items
  <2>1. t.sent = t.asked /\ t.after = Size(r, s) /\ Reads(r, s.dialect, t.asked, s.structured)
    BY <1>1 DEF SentAsIs, ReadAs
  <2>2. items \in Seq(Items)
    BY DEF SentFor, AskedUnder, Bodies
  <2>3. \A i \in DOMAIN items :
           /\ items[i] \in Items /\ Known(s.dialect, items[i].role)
           /\ r.messages[i] = MessageOf(s.dialect, items[i], s.structured)
           /\ r.messages[i] # Unread
    BY <2>1 DEF Reads
  <2>4. \A i \in DOMAIN items : ReadText(s.dialect, items[i]) = MessageText(r.messages[i])
    <3> SUFFICES ASSUME NEW i \in DOMAIN items
                 PROVE  ReadText(s.dialect, items[i]) = MessageText(r.messages[i])
      OBVIOUS
    <3> DEFINE a == items[i]
               m == r.messages[i]
    <3>1. a \in Items /\ m = MessageOf(s.dialect, a, s.structured) /\ m # Unread
      BY <2>3
    <3> HIDE DEF a, m
    <3> DEFINE prose == a.role \in TextRoles(s.dialect) /\ a.content.kind = "text"
    <3>2. /\ m.raw = NoRaw => prose /\ MessageText(m) = a.content.text
          /\ m.raw # NoRaw => ~prose /\ m.raw = a
      BY <3>1, MessageOfIs DEF IsTextItem
    <3>3. ReadText(s.dialect, a) = MessageText(m)
      BY <3>2 DEF ReadText, IsTextItem, MessageText
    <3>4. QED BY <3>3 DEF a, m
  <2>5. HoldsTexts(t.asked, s.dialect, r)
    BY <2>1, <2>2, <2>3, <2>4 DEF Reads, HoldsTexts, SystemRead
  <2>6. r \in Requests /\ s.dialect \in Dialects
    BY <2>1 DEF Reads
  <2> HIDE DEF r
  <2>7. RequestText(Parsed(s.dialect, t.asked, TRUE)) = RequestText(r)
    BY <2>5, <2>6, ReadAgain
  <2>8. QED BY <2>1, <2>7 DEF Size
<1>2. ASSUME NEW middle, NEW chosen, NEW mark, SentAs(t, middle, chosen, mark, s)
      PROVE  Size(Parsed(s.dialect, t.sent, TRUE), s) = t.after
  <2> DEFINE sent == t.sent.items
  <2>1. AskedUnder(t, s)
    BY DEF SentFor
  <2>2. sent \in Seq(Items) /\ \A i \in DOMAIN sent : Known(s.dialect, sent[i].role)
    BY <1>2, <2>1, KnownSent
  <2>3. /\ s.dialect # "openai" => t.sent.system.kind # "other"
        /\ SystemRead(s.dialect, t.sent) = chosen.system
    BY <1>2, <2>1, SystemSent
  <2>4. /\ chosen \in Requests /\ t.after = Size(chosen, s)
        /\ sent = [i \in DOMAIN chosen.messages |-> ItemOf(chosen.messages[i], i = mark)]
    BY <1>2 DEF SentAs, Delivers
  <2>5. s.dialect \in Dialects
    BY <1>2, DialectStays
  <2>6. \A i \in DOMAIN chosen.messages :
           /\ chosen.messages[i] \in Messages /\ Legible(s.dialect, chosen.messages[i])
           /\ sent[i] = ItemOf(chosen.messages[i], FALSE)
    <3>1. \A i \in DOMAIN chosen.messages :
             chosen.messages[i] \in Messages /\ Legible(s.dialect, chosen.messages[i])
      BY <1>2, StaysLegible
    <3>2. LeftUnmarked(t.sent.items, chosen)
      BY <1>2, <2>1, NotMarked
    <3>3. QED BY <3>1, <3>2 DEF LeftUnmarked
  <2>7. ASSUME NEW i \in DOMAIN sent
        PROVE  ReadText(s.dialect, sent[i]) = MessageText(chosen.messages[i])
    <3> DEFINE m == chosen.messages[i]
               x == sent[i]
    <3>1. m \in Messages /\ Legible(s.dialect, m) /\ x = ItemOf(m, FALSE)
      BY <2>4, <2>6
    <3> HIDE DEF m, x
    <3>2. ReadText(s.dialect, x) = MessageText(m)
      BY <3>1, ReadsBack
    <3>3. QED BY <3>2 DEF m, x
  <2>8. Len(sent) = Len(chosen.messages)
    <3>1. DOMAIN sent = DOMAIN chosen.messages
      BY <2>4
    <3>2. DOMAIN chosen.messages = 1..Len(chosen.messages) /\ Len(chosen.messages) \in Nat
      BY <2>4, RequestFields
    <3> HIDE DEF sent
    <3>3. QED BY <2>2, <3>1, <3>2, LenProperties
  <2>9. HoldsTexts(t.sent, s.dialect, chosen)
    BY <2>2, <2>3, <2>7, <2>8 DEF HoldsTexts
  <2>10. RequestText(Parsed(s.dialect, t.sent, TRUE)) = RequestText(chosen)
    BY <2>4, <2>5, <2>9, ReadAgain
  <2>11. QED BY <2>4, <2>10 DEF Size
<1>3. QED BY <1>1, <1>2 DEF SentFor, SentAsIs, Replaced

\* What is reported as sent is the size of what is sent (engine.py:555-561):
\* whoever reads the forwarded body again counts the same tokens, whatever was
\* compressed or compacted, unless a marker was added to it or the original
\* goes out in the place of a compacted request.
THEOREM CountsWhatIsSentHolds == Spec => []CountsWhatIsSent
<1>1. TurnSent => CountsWhatIsSent
  BY SentIsCounted DEF TurnSent, CountsWhatIsSent, Unmoved
<1>2. QED BY <1>1, TurnIsSent, PTL

-----------------------------------------------------------------------------
(* Where requests agree from the start, so does what is forwarded for them. *)

\* The turn before, too, was sent for what was asked.
LastSent == TurnSent /\ (last # Idle => SentFor(last, setup))

LEMMA LastIsSent == Spec => []LastSent
<1>1. Init => LastSent
  BY DEF Init, LastSent, TurnSent, Sending
<1>2. IInv /\ TurnSent /\ TurnSent' /\ LastSent /\ [Next]_vars => LastSent'
  <2> SUFFICES ASSUME IInv, TurnSent, TurnSent', LastSent, [Next]_vars PROVE LastSent'
    OBVIOUS
  <2>1. TurnStep /\ setup' = setup
    BY StepIs DEF TurnStep
  <2>2. last' \in {last, turn, Idle}
    BY <2>1 DEF TurnStep
  <2>3. last' # Idle => SentFor(last', setup')
    BY <2>1, <2>2 DEF LastSent, TurnSent, Sending
  <2>4. QED BY <2>3 DEF LastSent
<1>3. QED BY <1>1, <1>2, InductiveInvariant, TurnIsSent, PTL DEF Spec

\* What there is to say about an item that is sent, but for its marker.
LEMMA UnmarkedIs ==
    ASSUME NEW m \in Messages, NEW marked \in BOOLEAN, NEW x, x = ItemOf(m, marked)
    PROVE  /\ Unmarked(x) = [role |-> x.role,
                             content |-> [text |-> AllText(x.content), ids |-> IdsOf(x.content)]]
           /\ x.role = IF m.raw = NoRaw THEN m.role ELSE m.raw.role
           /\ AllText(x.content) = SaidBy(m)
           /\ IdsOf(x.content) = IF m.raw = NoRaw THEN << >> ELSE IdsOf(m.raw.content)
<1>1. CASE m.raw = NoRaw
  <2>1. /\ x \in Items /\ x.role = m.role
        /\ AllText(x.content) = SaidBy(m) /\ IdsOf(x.content) = << >>
    BY <1>1, ProseItemIs DEF SaidBy
  <2>2. Unmarked(x) = [role |-> x.role,
                       content |-> [text |-> AllText(x.content), ids |-> IdsOf(x.content)]]
    BY <2>1, ItemFields DEF Unmarked
  <2>3. QED BY <1>1, <2>1, <2>2
<1>2. CASE m.raw # NoRaw
  <2>1. x \in Items /\ SameButMarker(m.raw, x, marked) /\ m.raw \in Items
    BY <1>2, RawItemIs, MessageFields
  <2>2. AllText(x.content) = SaidBy(m) /\ IdsOf(x.content) = IdsOf(m.raw.content)
    BY <1>2, <2>1, SameAllText DEF SaidBy
  <2>3. x.role = m.raw.role
    BY <2>1 DEF SameButMarker
  <2>4. Unmarked(x) = [role |-> x.role,
                       content |-> [text |-> AllText(x.content), ids |-> IdsOf(x.content)]]
    BY <2>1, ItemFields DEF Unmarked
  <2>5. QED BY <1>2, <2>2, <2>3, <2>4
<1>3. QED BY <1>1, <1>2

LEMMA SameUnmarked ==
    ASSUME NEW m \in Messages, NEW marked \in BOOLEAN, NEW other \in BOOLEAN,
           NEW x, x = ItemOf(m, marked), NEW y, y = ItemOf(m, other)
    PROVE  Unmarked(x) = Unmarked(y)
<1>1. /\ Unmarked(x) = [role |-> x.role,
                        content |-> [text |-> AllText(x.content), ids |-> IdsOf(x.content)]]
      /\ x.role = IF m.raw = NoRaw THEN m.role ELSE m.raw.role
      /\ AllText(x.content) = SaidBy(m)
      /\ IdsOf(x.content) = IF m.raw = NoRaw THEN << >> ELSE IdsOf(m.raw.content)
  BY UnmarkedIs
<1>2. /\ Unmarked(y) = [role |-> y.role,
                        content |-> [text |-> AllText(y.content), ids |-> IdsOf(y.content)]]
      /\ y.role = IF m.raw = NoRaw THEN m.role ELSE m.raw.role
      /\ AllText(y.content) = SaidBy(m)
      /\ IdsOf(y.content) = IF m.raw = NoRaw THEN << >> ELSE IdsOf(m.raw.content)
  BY UnmarkedIs
<1>3. QED BY <1>1, <1>2

\* What a steady turn sends: what the chain makes of the request that was read.
SteadilySent(t, s, mark) ==
    /\ t.asked.items \in Seq(Items) /\ ReadAs(t, s) /\ t.canonical \in Requests
    /\ Compressed(t.canonical, s).request \in Requests
    /\ t.sent.items = [i \in DOMAIN Compressed(t.canonical, s).request.messages |->
                          ItemOf(Compressed(t.canonical, s).request.messages[i], i = mark)]

LEMMA SteadyIs ==
    ASSUME NEW s \in Setups, NEW t, SentFor(t, s), Steady(t, s)
    PROVE  \E mark : SteadilySent(t, s, mark)
<1>1. PICK middle, chosen, mark : SentAs(t, middle, chosen, mark, s)
  BY DEF SentFor, SentAsIs, Steady
<1>2. /\ ReadAs(t, s) /\ t.canonical \in Requests
      /\ t.working = t.canonical /\ chosen = Compressed(t.working, s).request
  BY <1>1 DEF SentAs, Steady, Compacted
<1>3. /\ chosen \in Requests
      /\ t.sent.items = [i \in DOMAIN chosen.messages |-> ItemOf(chosen.messages[i], i = mark)]
  BY <1>1 DEF SentAs, Delivers
<1>4. t.asked.items \in Seq(Items)
  BY DEF SentFor, AskedUnder, Bodies
<1>5. chosen = Compressed(t.canonical, s).request
  BY <1>2
<1>6. SteadilySent(t, s, mark)
  BY <1>2, <1>3, <1>4, <1>5 DEF SteadilySent
<1>7. QED BY <1>6

StartStays(t, u) ==
    \A n \in DOMAIN t.asked.items \intersect DOMAIN u.asked.items :
        SubSeq(t.asked.items, 1, n) = SubSeq(u.asked.items, 1, n)
            => Unmarked(t.sent.items[n]) = Unmarked(u.sent.items[n])

LEMMA PrefixStays ==
    ASSUME NEW s \in Setups, NEW t, SentFor(t, s), Steady(t, s),
           NEW u, SentFor(u, s), Steady(u, s)
    PROVE  StartStays(t, u)
<1> SUFFICES ASSUME NEW n, n \in DOMAIN t.asked.items, n \in DOMAIN u.asked.items,
                    SubSeq(t.asked.items, 1, n) = SubSeq(u.asked.items, 1, n)
             PROVE  Unmarked(t.sent.items[n]) = Unmarked(u.sent.items[n])
  BY DEF StartStays
<1> DEFINE a == t.canonical
           b == u.canonical
           c == Compressed(a, s).request
           d == Compressed(b, s).request
<1>1. PICK mark : SteadilySent(t, s, mark)
  BY SteadyIs
<1>2. PICK other : SteadilySent(u, s, other)
  BY SteadyIs
<1>3. /\ a \in Requests /\ b \in Requests /\ c \in Requests /\ d \in Requests
      /\ t.asked.items \in Seq(Items) /\ u.asked.items \in Seq(Items)
      /\ Reads(a, s.dialect, t.asked, s.structured) /\ Reads(b, s.dialect, u.asked, s.structured)
      /\ t.sent.items = [i \in DOMAIN c.messages |-> ItemOf(c.messages[i], i = mark)]
      /\ u.sent.items = [i \in DOMAIN d.messages |-> ItemOf(d.messages[i], i = other)]
  BY <1>1, <1>2 DEF SteadilySent, ReadAs
<1>4. \A i \in 1..n : i \in DOMAIN t.asked.items /\ i \in DOMAIN u.asked.items
                      /\ t.asked.items[i] = u.asked.items[i]
  <2> DEFINE v == t.asked.items
             w == u.asked.items
  <2>1. /\ v \in Seq(Items) /\ w \in Seq(Items) /\ n \in DOMAIN v /\ n \in DOMAIN w
        /\ SubSeq(v, 1, n) = SubSeq(w, 1, n)
    BY <1>3
  <2> HIDE DEF v, w
  <2>2. n \in 1..Len(v) /\ n \in 1..Len(w) /\ Len(v) \in Nat /\ Len(w) \in Nat
    BY <2>1, LenProperties
  <2>3. \A i \in 1..n : i \in 1..Len(v) /\ i \in 1..Len(w)
    BY <2>2
  <2>4. \A i \in 1..n : SubSeq(v, 1, n)[i] = v[i] /\ SubSeq(w, 1, n)[i] = w[i]
    BY <2>1, <2>2
  <2>5. QED BY <2>1, <2>2, <2>3, <2>4, LenProperties DEF v, w
<1>5. Agree(a, b, n)
  <2>1. /\ DOMAIN a.messages = DOMAIN t.asked.items /\ DOMAIN b.messages = DOMAIN u.asked.items
        /\ \A i \in DOMAIN t.asked.items :
              a.messages[i] = MessageOf(s.dialect, t.asked.items[i], s.structured)
        /\ \A i \in DOMAIN u.asked.items :
              b.messages[i] = MessageOf(s.dialect, u.asked.items[i], s.structured)
    BY <1>3 DEF Reads
  <2>2. \A i \in 1..n : a.messages[i] = b.messages[i]
    BY <1>4, <2>1
  <2>3. QED BY <2>1, <2>2 DEF Agree
<1>6. ~s.elide /\ Learns(s)
  BY SetupIs DEF Steady
<1> HIDE DEF a, b
<1>7. Agree(c, d, n)
  BY <1>3, <1>5, <1>6, CompressedAgrees
<1> HIDE DEF c, d
<1>8. n \in DOMAIN c.messages /\ n \in DOMAIN d.messages /\ c.messages[n] = d.messages[n]
  <2>1. n \in DOMAIN c.messages /\ n \in DOMAIN d.messages
    BY <1>7 DEF Agree
  <2>2. n \in 1..n
    <3>1. n \in 1..Len(c.messages) /\ Len(c.messages) \in Nat
      BY <1>3, <2>1, RequestFields
    <3>2. QED BY <3>1
  <2>3. QED BY <1>7, <2>1, <2>2 DEF Agree
<1> DEFINE m == c.messages[n]
           x == t.sent.items[n]
           y == u.sent.items[n]
           marked == n = mark
           marks == n = other
<1>9. /\ m \in Messages /\ x = ItemOf(m, marked) /\ y = ItemOf(m, marks)
      /\ marked \in BOOLEAN /\ marks \in BOOLEAN
  BY <1>3, <1>8, RequestFields
<1> HIDE DEF m, x, y, marked, marks
<1>10. Unmarked(x) = Unmarked(y)
  BY <1>9, SameUnmarked
<1>11. QED BY <1>10 DEF x, y

\* The prefix a provider has cached is met again (compress/): where two requests
\* of a conversation agree from the start, each message of that start is
\* forwarded with the same role, text and ids, wherever the marker has moved.
THEOREM PrefixStableHolds == Spec => []PrefixStable
<1>1. LastSent => PrefixStable
  <2> SUFFICES ASSUME LastSent, Sending, last # Idle, Steady(turn, setup), Steady(last, setup)
               PROVE  StartStays(turn, last)
    BY DEF PrefixStable, StartStays
  <2>1. setup \in Setups /\ SentFor(turn, setup) /\ SentFor(last, setup)
    BY DEF LastSent, TurnSent
  <2>2. QED BY <2>1, PrefixStays
<1>2. QED BY <1>1, LastIsSent, PTL

-----------------------------------------------------------------------------
(* The self-checks.                                                        *)

\* Memory starts what it keeps with a message of the user.
LEMMA MemoryHealthy ==
    ASSUME NEW a \in Requests, NEW b \in Requests, NEW s, s.keepRecentTurns \in Int,
           MemoryStep(a, b, s), b # a
    PROVE  b.system = a.system /\ StartsWithUser(b) = "good"
<1>1. PICK start \in 2..Len(a.messages) - s.keepRecentTurns + 1, header \in Seq(Clean) :
           a.messages[start].role = "user" /\ Windowed(a, b, start, header)
  BY DEF MemoryStep
<1>2. ~HasStructured(a)
  BY DEF MemoryStep
<1>3. /\ start \in 2..Len(a.messages) /\ b.system = a.system
      /\ Len(b.messages) = Len(a.messages) - start + 1
      /\ b.messages[1] = Headed(a.messages[start], header)
  BY <1>1 DEF Windowed
<1>4. Len(a.messages) \in Nat /\ DOMAIN a.messages = 1..Len(a.messages)
  BY RequestFields
<1>5. b.messages # << >>
  <2>1. Len(b.messages) > 0
    BY <1>3, <1>4
  <2>2. QED BY <2>1
<1>6. b.messages[1].role = "user"
  <2>1. start \in DOMAIN a.messages
    BY <1>3, <1>4
  <2>2. a.messages[start] \in Messages /\ a.messages[start].raw = NoRaw
    BY <1>2, <2>1, RequestFields DEF HasStructured
  <2>3. header \in Texts
    BY DEF Clean, Texts
  <2>4. Headed(a.messages[start], header).role = a.messages[start].role
    BY <2>2, <2>3, HeadedIs
  <2>5. QED BY <1>1, <1>3, <2>4
<1>7. QED BY <1>3, <1>5, <1>6 DEF StartsWithUser, IsUser

LEMMA PreparedHealthy ==
    ASSUME PromptsSetCodeApart, setup \in Setups, Sound(graph), NEW items \in Conversations, NEW stream
    PROVE  Healthy(Prepared(Body(items), stream).stages)
<1> DEFINE t == Prepared(Body(items), stream)
<1>1. CASE t = Passed(Body(items), stream)
  <2>1. t.stages = << >>
    BY <1>1 DEF Passed
  <2>2. QED BY <2>1 DEF Healthy
<1>2. ASSUME NEW canonical, NEW working, NEW out, PreparedFrom(t, items, canonical, working, out)
      PROVE  Healthy(t.stages)
  <2> HIDE DEF t
  <2>1. /\ canonical = Parsed(setup.dialect, Body(items), setup.structured)
        /\ canonical \in Requests /\ working \in Requests
        /\ MemoryStep(canonical, working, setup)
        /\ Emits(working, Body(items), out)
        /\ t = Optimized(Body(items), t.stream, canonical, working, out)
    BY <1>2 DEF PreparedFrom
  <2>2. SystemApart(canonical)
    <3>1. Body(items) \in Bodies /\ Body(items).system = setup.system
      BY BodyIs
    <3>2. canonical # Unread
      BY <2>1, TokenAssumption
    <3>3. Reads(canonical, setup.dialect, Body(items), setup.structured)
      BY <2>1, <3>1, <3>2, ParsedIs
    <3>4. /\ setup.dialect # "openai" => setup.system.kind # "other"
          /\ canonical.system = IF setup.dialect = "openai" \/ setup.system.kind = "none"
                                THEN NoSystem ELSE setup.system.text
      BY <3>1, <3>3 DEF Reads
    <3>5. setup.system.kind \in {"none", "text", "other"}
      BY SetupIs
    <3>6. QED BY <3>4, <3>5 DEF SystemApart, PromptsSetCodeApart
  <2>3. working # canonical => working.system = canonical.system /\ StartsWithUser(working) = "good"
    BY <2>1, SetupIs, MemoryHealthy
  <2>4. Healthy(out.stats)
    <3>1. PICK chosen :
               /\ chosen = Untouched(working) \/ chosen = Compressed(working, setup)
               /\ out = Encoded(Injected(chosen.request), chosen.stats, working, Body(items))
      BY <2>1 DEF Emits
    <3>2. SystemApart(working)
      BY <2>2, <2>3 DEF SystemApart
    <3>3. Healthy(chosen.stats)
      BY <2>1, <3>1, <3>2, SetupIs, UntouchedHealthy, ChainHealthy
    <3>4. out.stats = chosen.stats \/ out.stats = << >>
      BY <3>1 DEF Encoded
    <3>5. QED BY <3>3, <3>4 DEF Healthy
  <2>5. out.stats \in Seq(StagesOf(Sizes(setup)))
    BY <2>1, EmittedIs
  <2>6. t.stages = StageStats(canonical, working, out.stats)
    BY <2>1 DEF Optimized
  <2> DEFINE S == StagesOf(Sizes(setup))
             x == Stage("memory", Size(canonical, setup), Size(working, setup),
                        StartsWithUser(working))
             rest == out.stats
  <2>7. CASE working = canonical
    <3>1. t.stages = << >> \o rest
      BY <2>6, <2>7 DEF StageStats
    <3>2. rest \in Seq(S)
      BY <2>5
    <3> HIDE DEF S, rest
    <3>3. << >> \o rest = rest
      BY <3>2, ConcatEmptySeq
    <3>4. QED BY <2>4, <3>1, <3>3 DEF rest
  <2>8. CASE working # canonical
    <3>1. t.stages = <<x>> \o rest
      BY <2>6, <2>8 DEF StageStats
    <3>2. x.ok # "bad"
      BY <2>3, <2>8 DEF Stage
    <3> DEFINE T == S \union {x}
    <3>3. rest \in Seq(T)
      BY <2>5
    <3>4. x \in T
      OBVIOUS
    <3> HIDE DEF T, x, rest
    <3>5. <<x>> \in Seq(T) /\ Healthy(<<x>>)
      BY <3>2, <3>4 DEF Healthy
    <3>6. Healthy(<<x>> \o rest)
      BY <2>4, <3>3, <3>5, HealthyConcat DEF rest
    <3>7. QED BY <3>1, <3>6
  <2>9. QED BY <2>7, <2>8
<1>3. QED BY <1>1, <1>2, PreparedIs

\* No self-check ever fails, if fenced code in the system prompts has lines of
\* its own: the passes then change what the checks allow, and memory starts what
\* it keeps with the user.
THEOREM AlwaysHealthyHolds ==
    ASSUME PromptsSetCodeApart
    PROVE  Spec => []AlwaysHealthy
<1>1. Init => AlwaysHealthy
  BY DEF Init, AlwaysHealthy, Sending
<1>2. IInv /\ AlwaysHealthy /\ [Next]_vars => AlwaysHealthy'
  <2> SUFFICES ASSUME IInv, AlwaysHealthy, [Next]_vars PROVE AlwaysHealthy'
    OBVIOUS
  <2>1. TurnStep /\ setup \in Setups /\ Sound(graph)
    BY StepIs DEF IInv
  <2>2. CASE UNCHANGED <<turn, last>>
    BY <2>2 DEF AlwaysHealthy, Sending
  <2>3. CASE turn' = Idle
    BY <2>3 DEF AlwaysHealthy, Sending
  <2>4. ASSUME NEW items \in Conversations, NEW stream, turn' = Prepared(Body(items), stream)
        PROVE  AlwaysHealthy'
    BY <2>1, <2>4, PreparedHealthy DEF AlwaysHealthy, Sending, Healthy
  <2>5. QED BY <2>1, <2>2, <2>3, <2>4 DEF TurnStep
<1>3. QED BY <1>1, <1>2, InductiveInvariant, PTL DEF Spec

-----------------------------------------------------------------------------
(* Words stay words.                                                       *)

\* A message that says a text, as parsed, and what it becomes without a pass
\* that drops words.
KeepsWords(m, n) ==
    \A text \in Texts :
        m.raw = NoRaw /\ m.spans = Spans(text) /\ CodeApart(text)
            => n.raw = NoRaw /\ Words(SpansText(n.spans)) = Words(text)

AllKeepWords(r, next) == \A i \in DOMAIN r.messages : KeepsWords(r.messages[i], next.messages[i])

LEMMA SelfKeepsWords == ASSUME NEW r PROVE AllKeepWords(r, r)
<1>1. ASSUME NEW text \in Texts PROVE SpansText(Spans(text)) = text
  BY SpansSayText
<1>2. QED BY <1>1 DEF AllKeepWords, KeepsWords

LEMMA LosslessKeepsWords ==
    ASSUME NEW r \in Requests, NEW s
    PROVE  AllKeepWords(r, Rewritten("lossless", r, s))
<1> DEFINE old == r.messages
           next == Rewritten("lossless", r, s)
<1>1. ASSUME NEW i \in DOMAIN old PROVE next.messages[i] = RewrittenMessage("lossless", old[i], s)
  <2> DEFINE new == [j \in DOMAIN old |-> RewrittenMessage("lossless", old[j], s)]
             system == IF r.system = NoSystem THEN NoSystem ELSE RewrittenText("lossless", r.system, s)
  <2>1. r = [dialect |-> r.dialect, system |-> r.system, messages |-> r.messages,
             tools |-> r.tools, breakpoint |-> r.breakpoint]
    BY RequestFields
  <2>2. next = [r EXCEPT !.messages = new, !.system = system, !.breakpoint = 0]
    BY DEF Rewritten
  <2>3. new[i] = RewrittenMessage("lossless", old[i], s)
    OBVIOUS
  <2> HIDE DEF new, system, next
  <2>4. next.messages = new
    BY <2>1, <2>2
  <2>5. QED BY <2>3, <2>4
<1>2. ASSUME NEW m \in Messages, NEW text \in Texts, m.raw = NoRaw, m.spans = Spans(text), CodeApart(text),
             NEW n, n = RewrittenMessage("lossless", m, s)
      PROVE  n.raw = NoRaw /\ Words(SpansText(n.spans)) = Words(text)
  <2> DEFINE new == RewrittenSpans("lossless", m.spans, s)
  <2>1. n = [m EXCEPT !.spans = new]
    BY <1>2 DEF RewrittenMessage
  <2>2. m = [role |-> m.role, spans |-> m.spans, raw |-> m.raw]
    BY MessageFields
  <2>3. SpansText(new) = RewrittenText("lossless", text, s)
    BY <1>2 DEF RewrittenText
  <2> HIDE DEF new
  <2>4. n.raw = NoRaw /\ n.spans = new
    BY <1>2, <2>1, <2>2
  <2>5. MayBecome("lossless", text, RewrittenText("lossless", text, s), s)
    BY <1>2, TextKept DEF Checkers
  <2>6. Words(text) = Words(RewrittenText("lossless", text, s))
    BY <2>5 DEF MayBecome, SameWords
  <2>7. QED BY <2>3, <2>4, <2>6
<1> HIDE DEF next
<1>3. ASSUME NEW i \in DOMAIN old PROVE KeepsWords(old[i], next.messages[i])
  <2>1. old[i] \in Messages
    BY RequestFields
  <2> DEFINE m == old[i]
             n == next.messages[i]
  <2>2. m \in Messages /\ n = RewrittenMessage("lossless", m, s)
    BY <1>1, <2>1
  <2> HIDE DEF m, n
  <2>3. KeepsWords(m, n)
    BY <1>2, <2>2 DEF KeepsWords
  <2>4. QED BY <2>3 DEF m, n
<1>4. QED BY <1>3 DEF AllKeepWords, next

\* Elision leaves prose alone.
LEMMA ElisionKeepsProse ==
    ASSUME NEW r \in Requests, NEW s, s.elide
    PROVE  /\ Elision(r, s).request \in Requests
           /\ DOMAIN Elision(r, s).request.messages = DOMAIN r.messages
           /\ \A i \in DOMAIN r.messages :
                 r.messages[i].raw = NoRaw => Elision(r, s).request.messages[i] = r.messages[i]
<1> DEFINE n == Elided(r, s)
           old == r.messages
<1>1. /\ Elision(r, s) = IF n = r THEN Untouched(r) ELSE Measured("elision", r, n, "none", s)
      /\ n \in Requests
  BY ElisionIs
<1>2. DOMAIN n.messages = DOMAIN old
      /\ \A i \in DOMAIN old : old[i].raw = NoRaw => n.messages[i] = old[i]
  <2> DEFINE new == [i \in DOMAIN old |-> IF old[i].raw = NoRaw \/ ~Stale(r, i, s) THEN old[i]
                                          ELSE ElidedMessage(old[i])]
  <2>1. n = [r EXCEPT !.messages = new]
    BY DEF Elided
  <2>2. r = [dialect |-> r.dialect, system |-> r.system, messages |-> r.messages,
             tools |-> r.tools, breakpoint |-> r.breakpoint]
    BY RequestFields
  <2>3. DOMAIN new = DOMAIN old /\ \A i \in DOMAIN old : old[i].raw = NoRaw => new[i] = old[i]
    OBVIOUS
  <2> HIDE DEF new, n
  <2>4. n.messages = new
    BY <2>1, <2>2
  <2>5. QED BY <2>3, <2>4
<1> HIDE DEF n
<1>3. Elision(r, s).request = n \/ Elision(r, s).request = r
  BY <1>1 DEF Untouched, Measured, Outcome
<1>4. CASE Elision(r, s).request = n
  BY <1>1, <1>2, <1>4
<1>5. CASE Elision(r, s).request = r
  BY <1>5
<1>6. QED BY <1>3, <1>4, <1>5

LEMMA ChainKeepsWords ==
    ASSUME NEW r \in Requests, NEW s, ~s.filler, s.learned = "off"
    PROVE  AllKeepWords(r, BeforeDedup(r, s).request)
<1> DEFINE t0 == Untouched(r)
           t1 == Then(t0, "lossless", s)
           t4 == Then(t1, "elision", s)
<1>1. BeforeDedup(r, s) = t4
  <2>1. ~InChain("filler", s) /\ ~InChain("learned", s)
    BY DEF InChain
  <2>2. \A done : Then(done, "filler", s) = done /\ Then(done, "learned", s) = done
    BY <2>1 DEF Then
  <2>3. QED BY <2>2 DEF BeforeDedup
<1>2. t0.request = r
  BY DEF Untouched, Outcome
<1>3. /\ t1.request \in Requests /\ AllKeepWords(r, t1.request)
      /\ DOMAIN t1.request.messages = DOMAIN r.messages
  <2> HIDE DEF t0
  <2>1. CASE ~s.lossless
    <3>1. t1 = t0
      BY <2>1 DEF Then, InChain
    <3>2. QED BY <1>2, <3>1, SelfKeepsWords
  <2>2. CASE s.lossless
    <3> DEFINE next == Rewritten("lossless", r, s)
    <3>1. t1.request = Lossless(r, s).request
      BY <1>2, <2>2 DEF Then, InChain, Pass, Outcome
    <3>2. Lossless(r, s).request = next
      BY DEF Lossless, Checked, Measured, Outcome
    <3>3. next \in Requests /\ RequestAlike(r, next, s)
      <4>1. "lossless" \in Rewriters /\ Drops("lossless", s) \subseteq Droppable(s)
        BY DEF Rewriters, Drops, Droppable
      <4>2. QED BY <4>1, RewrittenIs
    <3>4. DOMAIN next.messages = DOMAIN r.messages
      <4> HIDE DEF next
      <4>1. Len(next.messages) = Len(r.messages)
        BY <3>3 DEF RequestAlike
      <4>2. QED BY <3>3, <4>1, RequestFields
    <3>5. AllKeepWords(r, next)
      BY LosslessKeepsWords
    <3> HIDE DEF next
    <3>6. QED BY <3>1, <3>2, <3>3, <3>4, <3>5
  <2>3. QED BY <2>1, <2>2
<1> HIDE DEF t1
<1>4. CASE ~s.elide
  <2>1. t4 = t1
    BY <1>4 DEF Then, InChain
  <2>2. QED BY <1>1, <1>3, <2>1
<1>5. CASE s.elide
  <2> DEFINE q == t1.request
             e == Elision(q, s).request
  <2>1. t4.request = e
    BY <1>5 DEF Then, InChain, Pass, Outcome
  <2>2. q \in Requests /\ AllKeepWords(r, q) /\ DOMAIN q.messages = DOMAIN r.messages
    BY <1>3
  <2>3. \A i \in DOMAIN q.messages : q.messages[i].raw = NoRaw => e.messages[i] = q.messages[i]
    BY <1>5, <2>2, ElisionKeepsProse
  <2> HIDE DEF q, e
  <2>4. \A i \in DOMAIN r.messages : KeepsWords(r.messages[i], e.messages[i])
    BY <2>2, <2>3 DEF AllKeepWords, KeepsWords
  <2>5. QED BY <1>1, <2>1, <2>4 DEF AllKeepWords
<1>6. QED BY <1>4, <1>5

\* A message of a setup without passes that drop words: a text whose code has
\* lines of its own is sent with its words, or as a repeat.
WordsStay(asked, sent) ==
    \A i \in DOMAIN asked :
        LET text == asked[i].content.text
            said == AllText(sent[i].content)
        IN  asked[i].content.kind = "text" /\ CodeApart(text)
                => Words(said) = Words(text) \/ Marks(said)

LEMMA SentWithItsWords ==
    ASSUME NEW s \in Setups, NEW t, SentFor(t, s), ~s.filler, s.learned = "off", ~Compacted(t)
    PROVE  WordsStay(t.asked.items, t.sent.items)
<1> DEFINE asked == t.asked.items
           sent == t.sent.items
<1>1. asked \in Seq(Items) /\ \A i \in DOMAIN asked : asked[i] \in Items /\ asked[i].content \in Contents
  <2>1. asked \in Seq(Items)
    BY DEF SentFor, AskedUnder, Bodies
  <2> HIDE DEF asked
  <2>2. \A i \in DOMAIN asked : asked[i] \in Items
    <3>1. \A i \in DOMAIN asked : i \in 1..Len(asked)
      BY <2>1, LenProperties
    <3>2. QED BY <2>1, <3>1, ElementOfSeq
  <2>3. QED BY <2>1, <2>2, ItemFields
<1>2. CASE SentAsIs(t, s)
  <2>1. sent = asked
    BY <1>2 DEF SentAsIs
  <2>2. \A i \in DOMAIN asked : asked[i].content.kind = "text"
                                    => AllText(asked[i].content) = asked[i].content.text
    BY <1>1, AllTextIs
  <2>3. QED BY <2>1, <2>2 DEF WordsStay
<1>3. ASSUME NEW middle, NEW chosen, NEW mark, SentAs(t, middle, chosen, mark, s)
      PROVE  WordsStay(asked, sent)
  <2> DEFINE w == t.working
  <2>1. /\ w \in Requests /\ w = t.canonical /\ Reads(w, s.dialect, t.asked, s.structured)
        /\ Result(w, middle, chosen, s)
    BY <1>3 DEF SentAs, ReadAs, Compacted
  <2>2. DeliveredAs(t, middle, chosen, mark, s)
    BY <1>3, Delivered
  <2>3. AllKeepWords(w, middle)
    <3> HIDE DEF w
    <3>1. middle = w \/ middle = BeforeDedup(w, s).request
      BY <2>1 DEF Result
    <3>2. QED BY <2>1, <3>1, SelfKeepsWords, ChainKeepsWords
  <2> SUFFICES ASSUME NEW i \in DOMAIN asked, asked[i].content.kind = "text",
                      CodeApart(asked[i].content.text)
               PROVE  \/ Words(AllText(sent[i].content)) = Words(asked[i].content.text)
                      \/ Marks(AllText(sent[i].content))
    BY DEF WordsStay
  <2> DEFINE a == asked[i]
             x == sent[i]
             m == w.messages[i]
             n == middle.messages[i]
             d == chosen.messages[i]
             text == a.content.text
  <2>4. /\ a \in Items /\ text \in Texts /\ AllText(a.content) = text
        /\ a.content \in Contents /\ a.content.kind = "text" /\ CodeApart(text)
    BY <1>1, AllTextIs, ContentFields
  <2>5. i \in DOMAIN w.messages /\ m = MessageOf(s.dialect, a, s.structured) /\ m # Unread
    BY <2>1 DEF Reads
  <2>6. /\ m \in Messages /\ n \in Messages /\ d \in Messages
        /\ MessageAlike(m, n, s) /\ MessageDeduped(n, d) /\ x = ItemOf(d, i = mark)
        /\ KeepsWords(m, n)
    BY <2>2, <2>3, <2>5 DEF DeliveredAs, AllKeepWords
  <2> HIDE DEF a, x, m, n, d, text
  <2>7. AllText(x.content) = SaidBy(d)
    BY <2>6, TextSent
  <2>8. /\ m.raw = NoRaw => m.spans = Spans(a.content.text)
        /\ m.raw # NoRaw => m.raw = a
    <3>1. a \in Items /\ m = MessageOf(s.dialect, a, s.structured) /\ m # Unread
      BY <2>4, <2>5
    <3>2. QED BY ONLY <3>1, MessageOfIs
  <2>9. CASE m.raw = NoRaw
    <3>1. m.spans = Spans(text)
      <4>1. m.spans = Spans(a.content.text)
        BY <2>9, <2>8
      <4>2. QED BY <4>1 DEF text
    <3>2. n.raw = NoRaw /\ Words(SpansText(n.spans)) = Words(text)
      BY <2>4, <2>6, <2>9, <3>1 DEF KeepsWords
    <3>3. d.raw = NoRaw /\ (d.spans = n.spans \/ Marks(MessageText(d)))
      BY <2>6, <3>2, RepeatIsMarked
    <3>4. MessageText(d) = SpansText(d.spans) /\ SaidBy(d) = MessageText(d)
      BY <3>3 DEF MessageText, SaidBy
    <3>5. QED BY <2>7, <3>2, <3>3, <3>4 DEF x, a, text
  <2>10. CASE m.raw # NoRaw
    <3>1. m.raw = a
      BY <2>10, <2>8
    <3>2. /\ d.raw # NoRaw
          /\ d.raw.content.kind = m.raw.content.kind /\ d.raw.content.text = m.raw.content.text
      BY <2>6, <2>10, RawDelivered
    <3>3. d.raw.content \in Contents
      BY <2>6, <3>2, MessageFields
    <3>4. d.raw.content.kind = "text" /\ d.raw.content.text = text
      BY <2>4, <3>1, <3>2 DEF text
    <3>5. AllText(d.raw.content) = text
      BY <3>3, <3>4, AllTextIs
    <3>6. SaidBy(d) = AllText(d.raw.content)
      BY <3>2 DEF SaidBy
    <3>7. QED BY <2>7, <3>5, <3>6 DEF x, a, text
  <2>11. QED BY <2>9, <2>10
<1>4. QED BY <1>2, <1>3 DEF SentFor

\* Where no pass that drops words is configured and nothing is compacted
\* (lossless.py, invariants.py), a text whose fenced code has lines of its own is
\* forwarded word by word, but for a repeat that is marked.  So what the run
\* OutboundInline shows of WordsSeparated needs code within a line, or a repeat.
THEOREM WordsStayWords ==
    Spec => [](Sending /\ ~setup.filler /\ setup.learned = "off" /\ ~Compacted(turn)
                   => WordsStay(turn.asked.items, turn.sent.items))
<1>1. TurnSent => (Sending /\ ~setup.filler /\ setup.learned = "off" /\ ~Compacted(turn)
                       => WordsStay(turn.asked.items, turn.sent.items))
  BY SentWithItsWords DEF TurnSent
<1>2. QED BY <1>1, TurnIsSent, PTL
=============================================================================
