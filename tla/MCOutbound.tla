----------------------------- MODULE MCOutbound -----------------------------
(* Nine configurations, each with the turns that are hard for it.          *)
EXTENDS Outbound

Code == "[code]"
MCFences == {Code}
MCStub == <<"[stub]">>
MCMarker == <<"[same]">>

Width(t) == IF t \in Blanks THEN 1 ELSE IF t = Code THEN 12 ELSE 4

MCChars(text) ==
    LET sum[n \in 0..Len(text)] == IF n = 0 THEN 0 ELSE sum[n - 1] + Width(text[n])
    IN  sum[Len(text)]

\* A space costs nothing before a word.  Line ends are merged into one token,
\* but for exactly two, which the vocabulary does not have.
MCBpe(text) ==
    LET At(i) == IF i \in DOMAIN text THEN text[i] ELSE Newline
        Cost(i) == CASE text[i] = Space -> IF At(i + 1) \in Blanks THEN 1 ELSE 0
                     [] text[i] = Newline ->
                            IF i > 1 /\ At(i - 1) = Newline
                            THEN IF (i = 2 \/ At(i - 2) # Newline)
                                    /\ (i = Len(text) \/ At(i + 1) # Newline) THEN 1 ELSE 0
                            ELSE 1
                     [] OTHER -> IF text[i] = Code THEN 3 ELSE 1
        sum[n \in 0..Len(text)] == IF n = 0 THEN 0 ELSE sum[n - 1] + Cost(n)
    IN  sum[Len(text)]

Text(role, text) == Item(role, Content("text", text, << >>))
With(role, blocks) == Item(role, Content("blocks", << >>, blocks))
Call(id) == [type |-> "tool_use", id |-> id, text |-> << >>, payload |-> << >>, cached |-> FALSE]
Result(id, payload) ==
    [type |-> "tool_result", id |-> id, text |-> << >>, payload |-> payload, cached |-> FALSE]

Ask == <<"open", " ", "please", " ", "file", " ", "\n">>
Paste == <<"please", "\n", Code, "\n", "um", " ", "done">>
Spread == <<"file", "\n", "\n", "\n", "done">>
Lone == <<"lone", " ", "file">>
Reply == <<"done", "\n", Code>>
Rules == <<"note", " ", "\n", Code, "\n", "please">>

Usual == [shape |-> "usage", input |-> 2, output |-> 1, read |-> -1, write |-> 0]

Plain ==
    [dialect |-> "openai", system |-> Content("none", << >>, << >>), tools |-> << >>,
     tenant |-> NoTenant, structured |-> FALSE, memory |-> "off", inject |-> FALSE,
     minPrefix |-> 3, cache |-> FALSE, similar |-> FALSE, metrics |-> FALSE,
     lossless |-> TRUE, filler |-> FALSE, elide |-> FALSE, dedup |-> FALSE,
     fillers |-> {"please"}, learned |-> "off", keepRecent |-> 1, minChars |-> 2,
     verify |-> TRUE, encoding |-> TRUE,
     minMessages |-> 2, keepRecentTurns |-> 1, retrieve |-> 2, items |-> 2,
     asks |-> {Text("user", Ask), Text("user", Paste), Text("user", Spread)},
     replies |-> {Text("assistant", Reply)}, usages |-> {Usual},
     streams |-> {FALSE}, mishaps |-> {"refuse"}]

Lossy ==
    [Plain EXCEPT !.filler = TRUE, !.learned = "on", !.dedup = TRUE,
        !.asks = {Text("user", Ask), Text("user", Paste), Text("system", Rules)}]

Bare ==
    [Plain EXCEPT !.filler = TRUE, !.fillers = {"please", "um"}, !.learned = "missing",
        !.encoding = FALSE, !.dialect = "anthropic", !.inject = TRUE,
        !.tools = <<"tool", CacheControl>>,
        !.asks = {Text("user", Ask), Text("user", Lone), Text("user", <<Code>>)}]

Agent ==
    [Plain EXCEPT !.dialect = "anthropic", !.structured = TRUE, !.inject = TRUE,
        !.elide = TRUE, !.filler = TRUE, !.verify = FALSE, !.memory = "inject",
        !.system = Content("text", Rules, << >>),
        !.asks = {Text("user", Ask), With("user", <<Result("c", <<"please", " ", "done">>)>>),
                  With("user", <<Result("c", <<"no">>),
                                 [TextBlock(Ask, FALSE) EXCEPT !.cached = TRUE]>>)},
        !.replies = {With("assistant", <<TextBlock(Ask, FALSE), Call("c")>>),
                     Text("assistant", Reply)}]

Recall ==
    [Plain EXCEPT !.dialect = "anthropic", !.memory = "inject", !.inject = TRUE,
        !.dedup = TRUE, !.minChars = 12, !.keepRecentTurns = 2,
        !.system = Content("text", Rules, << >>),
        !.asks = {Text("user", Spread), Text("user", Paste), Text("user", Lone)},
        !.replies = {Text("assistant", Reply), Text("assistant", <<"file">>)},
        !.mishaps = {"renew", "restart"}]

Summary ==
    [Plain EXCEPT !.dialect = "gemini", !.memory = "summary", !.filler = TRUE,
        !.keepRecentTurns = 2, !.tools = <<"tool">>,
        !.system = Content("text", Rules, << >>),
        !.asks = {Text("user", Ask), Text("user", Paste), Text("user", <<" ">>)},
        !.usages = {[Usual EXCEPT !.shape = "usageMetadata"]},
        !.streams = {TRUE}]

Accounted ==
    [Plain EXCEPT !.dialect = "gemini", !.cache = TRUE, !.similar = TRUE, !.metrics = TRUE,
        !.tenant = "acme", !.structured = TRUE,
        !.asks = {Text("user", Ask), Item("function", Content("other", Ask, << >>))},
        !.usages = {[Usual EXCEPT !.shape = "usageMetadata"]},
        !.mishaps = {"refuse", "renew", "restart"}]

Unhandled ==
    [Accounted EXCEPT !.dialect = "anthropic", !.structured = FALSE, !.similar = FALSE,
        !.system = Content("other", Rules, << >>), !.streams = BOOLEAN,
        !.usages = {Usual, [Usual EXCEPT !.input = -1],
                    [Usual EXCEPT !.shape = "none", !.input = 0]},
        !.mishaps = {"refuse", "fail", "restart"}]

\* Tools that cannot be encoded.
Garbled == [Summary EXCEPT !.tools = <<"tool", "lone">>]

MCSetups == {Plain, Lossy, Bare, Agent, Recall, Summary, Garbled, Accounted, Unhandled}

\* What the proof about the self-checks supposes.
ASSUME PromptAssumption == PromptsSetCodeApart

\* Code within a line.
MCInline ==
    {[Plain EXCEPT !.asks = {Text("user", <<"open", " ", Code>>), Text("user", Ask)}]}
=============================================================================
