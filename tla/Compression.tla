---------------------------- MODULE Compression ----------------------------
(***************************************************************************)
(* The compression passes of parcus.compress, their self-checks            *)
(* (parcus.invariants) and the token counts they report (parcus.tokenize), *)
(* as functions of a canonical request.                                    *)
(*                                                                         *)
(* Settings are a record of                                                *)
(*   lossless, filler, elide, dedup   whether the pass is in the chain     *)
(*   fillers      the allow-list of the filler pass                        *)
(*   learned      "off", "on", or "missing": on, but not installed         *)
(*   keepRecent   the latest messages elision leaves alone                 *)
(*   minChars     the size from which dedup looks at a block               *)
(*   verify       whether the self-checks run on this call                 *)
(*   encoding     whether the vocabulary of the tokenizer could be loaded  *)
(***************************************************************************)
EXTENDS Transcript, SavingsLedger

CONSTANTS
    Bpe(_),          \* the tokens of a text in the encoding of the model
    Chars(_),        \* its characters
    CharsPerToken,
    Dull,            \* the words a local model finds uninformative
    Stub,            \* what stands for an elided payload
    Marker           \* what stands for a repeated block

ASSUME TextAssumption ==
    Stub \in Texts /\ Marker \in Texts /\ CharsPerToken \in Nat \ {0}

-----------------------------------------------------------------------------
(* Texts.                                                                  *)

\* text.split(): a word is a maximal run of tokens that are not blank.
Words(text) ==
    LET Next(words, i) ==
            IF text[i] \in Blanks THEN words
            ELSE IF i = 1 \/ text[i - 1] \in Blanks THEN Append(words, <<text[i]>>)
            ELSE [words EXCEPT ![Len(words)] = Append(@, text[i])]
        upTo[n \in 0..Len(text)] ==
            IF n = 0 THEN << >> ELSE Next(upTo[n - 1], n)
    IN  upTo[Len(text)]

\* Fenced code has lines of its own, which is how it is usually written.
CodeApart(text) ==
    \A i \in 1..Len(text) - 1 :
        /\ text[i] \in Fences => text[i + 1] = Newline
        /\ text[i + 1] \in Fences => text[i] = Newline

\* line.rstrip() of every line, the last one included.
LinesStripped(text) ==
    LET Trailing(i) == \E j \in i..Len(text) :
                          /\ \A k \in i..j : text[k] = Space
                          /\ j = Len(text) \/ text[j + 1] = Newline
    IN  Kept(text, {i \in DOMAIN text : ~Trailing(i)})

\* Three or more line ends in a row become two.
NormaliseWhitespace(text) ==
    LET lines == LinesStripped(text)
    IN  Kept(lines, {i \in DOMAIN lines : i < 3 \/ \E j \in i - 2..i : lines[j] # Newline})

\* A filler is dropped as a whole word only.
IsFiller(word, fillers) == Len(word) = 1 /\ word[1] \in fillers

\* " ".join of the words of each line that are no fillers.
FilterProse(text, fillers) ==
    LET Whole(i) == \A j \in {i - 1, i + 1} \intersect DOMAIN text : text[j] \in Blanks
        Stays(i) == text[i] \notin Blanks /\ ~(Whole(i) /\ text[i] \in fillers)
        Parts(i) == /\ i < Len(text) /\ Stays(i + 1)
                    /\ \E j \in 1..i - 1 : Stays(j) /\ Newline \notin {text[k] : k \in j..i}
    IN  Kept(text, {i \in DOMAIN text :
                        text[i] = Newline \/ Stays(i) \/ (text[i] = Space /\ Parts(i))})

\* The reducer: a local model, of which no more is known.
Reduced(text) == Kept(text, {i \in DOMAIN text : text[i] \notin Dull})

-----------------------------------------------------------------------------
(* Counting.                                                               *)

HeuristicTokens(text) == (Chars(text) + CharsPerToken - 1) \div CharsPerToken

Tokens(text, s) ==
    IF text = << >> THEN 0
    ELSE IF s.encoding THEN Bpe(text) ELSE HeuristicTokens(text)

Size(request, s) == Tokens(RequestText(request), s)

-----------------------------------------------------------------------------
(* A rewriting pass changes prose: the mutable spans of messages, of text  *)
(* blocks and of the system prompt.                                        *)

\* What a pass makes of a piece of prose.
RewrittenProse(pass, text, s) ==
    CASE pass = "lossless" -> NormaliseWhitespace(text)
      [] pass = "filler" -> FilterProse(text, s.fillers)
      [] pass = "learned" -> Reduced(text)

RewrittenSpans(pass, spans, s) ==
    [i \in DOMAIN spans |->
        IF spans[i].mutable THEN Span(RewrittenProse(pass, spans[i].text, s), TRUE)
        ELSE spans[i]]

RewrittenText(pass, text, s) == SpansText(RewrittenSpans(pass, Spans(text), s))

\* Mutant: the payload of a tool result is rewritten too.
RewrittenAnyBlock(pass, block, s) ==
    [block EXCEPT !.text = RewrittenText(pass, @, s), !.payload = RewrittenText(pass, @, s)]

RewrittenBlock(pass, block, s) ==
    IF block.type = "text" THEN [block EXCEPT !.text = RewrittenText(pass, @, s)] ELSE block

RewrittenMessage(pass, m, s) ==
    IF m.raw = NoRaw THEN [m EXCEPT !.spans = RewrittenSpans(pass, @, s)]
    ELSE [m EXCEPT !.raw.content.blocks =
             [i \in DOMAIN @ |-> RewrittenBlock(pass, @[i], s)]]

Rewritten(pass, request, s) ==
    [request EXCEPT
        !.messages = [i \in DOMAIN @ |-> RewrittenMessage(pass, @[i], s)],
        !.system = IF @ = NoSystem THEN NoSystem ELSE RewrittenText(pass, @, s),
        !.breakpoint = 0]

\* Whether there is anything to rewrite: the reducer is loaded on first use.
HasProse(request) ==
    LET Prose(text) == \E i \in DOMAIN Spans(text) : Spans(text)[i].mutable
    IN  \/ request.system # NoSystem /\ Prose(request.system)
        \/ \E i \in DOMAIN request.messages :
              LET m == request.messages[i]
              IN  IF m.raw = NoRaw THEN \E j \in DOMAIN m.spans : m.spans[j].mutable
                  ELSE \E j \in DOMAIN m.raw.content.blocks :
                          LET b == m.raw.content.blocks[j]
                          IN  b.type = "text" /\ Prose(b.text)

-----------------------------------------------------------------------------
(* The self-checks: lossless_violations and filler_violations.             *)

SameWords(a, b) == Words(a) = Words(b)

\* removed_only_allowed: one pass over the words of the original, with the
\* place of the next word of the output, or 0 once a word is not accounted for.
RemovedOnlyAllowed(original, compressed, allowed) ==
    LET from == Words(original)
        out == Words(compressed)
        Step(at, word) ==
            IF at \in DOMAIN out /\ word = out[at] THEN at + 1
            ELSE IF IsFiller(word, allowed) THEN at
            ELSE 0
        place[n \in 0..Len(from)] ==
            IF n = 0 THEN 1
            ELSE LET at == place[n - 1] IN IF at = 0 THEN 0 ELSE Step(at, from[n])
    IN  place[Len(from)] = Len(out) + 1

\* What a pass may make of a text.
MayBecome(pass, a, b, s) ==
    IF pass = "lossless" THEN SameWords(a, b) ELSE RemovedOnlyAllowed(a, b, s.fillers)

\* Structured messages have no spans: only their role is looked at.
Equivalent(pass, original, next, s) ==
    /\ (original.system = NoSystem) = (next.system = NoSystem)
    /\ original.system # NoSystem => MayBecome(pass, original.system, next.system, s)
    /\ Len(original.messages) = Len(next.messages)
    /\ \A i \in DOMAIN original.messages :
          LET a == original.messages[i]
              b == next.messages[i]
          IN  /\ a.role = b.role
              /\ Len(a.spans) = Len(b.spans)
              /\ \A j \in DOMAIN a.spans :
                    IF a.spans[j].mutable
                    THEN MayBecome(pass, a.spans[j].text, b.spans[j].text, s)
                    ELSE a.spans[j].text = b.spans[j].text

Verdict(ok, s) == IF ~s.verify THEN "none" ELSE IF ok THEN "good" ELSE "bad"

-----------------------------------------------------------------------------
(* The passes.  Each returns a request and its statistics.                 *)

Outcome(request, stats) == [request |-> request, stats |-> stats]
Untouched(request) == Outcome(request, << >>)

Measured(name, request, next, ok, s) ==
    Outcome(next, <<Stage(name, Size(request, s), Size(next, s), ok)>>)

\* A pass that checks itself.
Checked(name, request, next, s) ==
    Measured(name, request, next, Verdict(Equivalent(name, request, next, s), s), s)

Lossless(request, s) ==
    Checked("lossless", request, Rewritten("lossless", request, s), s)

\* Mutant: the pass drops a word that is not on the list it was given.
FillerBeyondList(request, s) ==
    Checked("filler", request,
            Rewritten("filler", request, [s EXCEPT !.fillers = @ \union Dull]), s)

Filler(request, s) ==
    Checked("filler", request, Rewritten("filler", request, s), s)

Learned(request, s) ==
    IF s.learned = "missing" /\ HasProse(request) THEN Untouched(request)
    ELSE Measured("learned", request, Rewritten("learned", request, s), "none", s)

\* A payload is worth eliding if it is larger than the stub.
Elidable(block) ==
    block.type = "tool_result" /\ block.payload # Stub /\ Chars(block.payload) > Chars(Stub)

ElidedBlock(block) == IF Elidable(block) THEN [block EXCEPT !.payload = Stub] ELSE block

\* The last keepRecent messages are left alone.
Stale(request, i, s) ==
    i <= Len(request.messages) - (IF s.keepRecent > 0 THEN s.keepRecent ELSE 0)

Elision(request, s) ==
    LET OfMessage(i) ==
            LET m == request.messages[i]
            IN  IF m.raw = NoRaw \/ ~Stale(request, i, s) THEN m
                ELSE [m EXCEPT !.raw.content.blocks =
                         [j \in DOMAIN @ |-> ElidedBlock(@[j])]]
        next == [request EXCEPT !.messages = [i \in DOMAIN @ |-> OfMessage(i)]]
    IN  IF next = request THEN Untouched(request)
        ELSE Measured("elision", request, next, "none", s)

\* A block is large if replacing it by the marker makes the text shorter.
Large(text, s) ==
    Chars(text) >= (IF s.minChars > Chars(Marker) THEN s.minChars ELSE Chars(Marker) + 1)

\* The places of the spans of a request.  Structured messages have none.
Places(request) ==
    UNION {{i} \X DOMAIN request.messages[i].spans : i \in DOMAIN request.messages}

SpanAt(request, p) == request.messages[p[1]].spans[p[2]]

Before(p, q) == p[1] < q[1] \/ (p[1] = q[1] /\ p[2] < q[2])

\* Mutant: the last copy is kept instead of the first.
RepeatsLater(request, p) ==
    \E q \in Places(request) : Before(p, q) /\ SpanAt(request, q).text = SpanAt(request, p).text

Repeats(request, p) ==
    \E q \in Places(request) : Before(q, p) /\ SpanAt(request, q).text = SpanAt(request, p).text

Dedup(request, s) ==
    LET Redundant(p) == Large(SpanAt(request, p).text, s) /\ Repeats(request, p)
        OfMessage(i) ==
            [request.messages[i] EXCEPT !.spans =
                [j \in DOMAIN @ |-> IF Redundant(<<i, j>>) THEN Span(Marker, FALSE) ELSE @[j]]]
    IN  IF \A p \in Places(request) : ~Redundant(p) THEN Untouched(request)
        ELSE Measured("dedup", request,
                      [request EXCEPT !.messages = [i \in DOMAIN @ |-> OfMessage(i)]], "none", s)

-----------------------------------------------------------------------------
(* The chain, in the order of build_engine.                                *)

Passes == <<"lossless", "filler", "learned", "elision", "dedup">>

InChain(name, s) ==
    CASE name = "lossless" -> s.lossless
      [] name = "filler" -> s.filler
      [] name = "learned" -> s.learned # "off"
      [] name = "elision" -> s.elide
      [] name = "dedup" -> s.dedup

Pass(name, request, s) ==
    CASE name = "lossless" -> Lossless(request, s)
      [] name = "filler" -> Filler(request, s)
      [] name = "learned" -> Learned(request, s)
      [] name = "elision" -> Elision(request, s)
      [] name = "dedup" -> Dedup(request, s)

\* A pass works on the output of those before it; their statistics are
\* reported one after the other.
Then(done, name, s) ==
    LET outcome == Pass(name, done.request, s)
    IN  IF InChain(name, s) THEN Outcome(outcome.request, done.stats \o outcome.stats)
        ELSE done

Compressed(request, s) ==
    LET outcome[n \in 0..Len(Passes)] ==
            IF n = 0 THEN Untouched(request) ELSE Then(outcome[n - 1], Passes[n], s)
    IN  outcome[Len(Passes)]
=============================================================================
