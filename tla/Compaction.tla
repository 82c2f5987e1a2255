----------------------------- MODULE Compaction -----------------------------
(***************************************************************************)
(* The memory of a conversation (parcus.memory): a graph of the texts that *)
(* went by, what is retrieved from it or summarized, and the rewriting of  *)
(* a long request that drops the older turns.                              *)
(*                                                                         *)
(* A graph keeps its nodes in the order of their first insertion, one per  *)
(* kind and text, and every edge it was ever given.                        *)
(*                                                                         *)
(* Of the settings, compaction reads                                       *)
(*   minMessages, keepRecentTurns   a longer request may be rewritten, and *)
(*                                  how much of it is kept                 *)
(*   retrieve, items                the most snippets, the most points     *)
(***************************************************************************)
EXTENDS Transcript

CONSTANTS
    Stopwords,      \* words that are no terms
    Unencodable,    \* the tokens str.encode refuses: lone surrogates
    ContextHeader,  \* what goes before retrieved snippets
    SummaryHeader   \* what goes before a summary

\* What the memory puts before its texts can be encoded, and so can blanks.
ASSUME HeaderAssumption ==
    /\ {ContextHeader, SummaryHeader} \subseteq STRING
    /\ Unencodable \intersect ({ContextHeader, SummaryHeader} \union Blanks) = {}

NoGraph == [nodes |-> << >>, edges |-> << >>]
Node(kind, text) == [kind |-> kind, text |-> text]
Edge(src, dst) == [src |-> src, dst |-> dst]

Encodable(text) == Unencodable \intersect ToSet(text) = {}

-----------------------------------------------------------------------------
(* Ingestion.                                                              *)

\* text.strip()
Trimmed(text) ==
    LET solid == {i \in DOMAIN text : text[i] \notin Blanks}
    IN  IF solid = {} THEN << >> ELSE SubSeq(text, Min(solid), Max(solid))

\* Mutant: a node that is there already is stored again.
WithNodeTwice(graph, node) == [graph EXCEPT !.nodes = Append(@, node)]

\* A node is found by its kind and text: putting it back changes nothing.
WithNode(graph, node) ==
    IF node \in ToSet(graph.nodes) THEN graph ELSE [graph EXCEPT !.nodes = Append(@, node)]

\* What there is to ingest: the system prompt, then the turns.
Ingestible(request) ==
    LET NonEmpty(nodes) == Kept(nodes, {i \in DOMAIN nodes : nodes[i].text # << >>})
        facts == IF request.system = NoSystem THEN << >>
                 ELSE <<Node("fact", Trimmed(request.system))>>
        turns == [i \in DOMAIN request.messages |->
                     Node("turn", Trimmed(MessageText(request.messages[i])))]
    IN  NonEmpty(facts \o turns)

\* A node comes with an edge from the turn before it.
WithTurn(graph, nodes, i) ==
    IF i > 1 /\ nodes[i - 1].kind = "turn"
    THEN [WithNode(graph, nodes[i]) EXCEPT !.edges = Append(@, Edge(nodes[i - 1], nodes[i]))]
    ELSE WithNode(graph, nodes[i])

\* Ingestion stops at a text that has no digest; what came before it stays.
Ingested(graph, request) ==
    LET nodes == Ingestible(request)
        bad == SelectInSeq(nodes, LAMBDA node : ~Encodable(node.text))
        count == IF bad = 0 THEN Len(nodes) ELSE bad - 1
        after[n \in 0..count] == IF n = 0 THEN graph ELSE WithTurn(after[n - 1], nodes, n)
    IN  after[count]

Ingests(request) == \A i \in DOMAIN Ingestible(request) : Encodable(Ingestible(request)[i].text)

-----------------------------------------------------------------------------
(* Retrieval.                                                              *)

Terms(text) == ToSet(text) \ (Blanks \union Stopwords)

Overlap(node, terms) == Cardinality(Terms(node.text) \intersect terms)
Union(node, terms) == Cardinality(Terms(node.text) \union terms)

\* node has a better Jaccard score than other, or as good a one and more terms.
Better(node, other, terms) ==
    LET score == Overlap(node, terms) * Union(other, terms)
        least == Overlap(other, terms) * Union(node, terms)
    IN  score > least \/ (score = least /\ Overlap(node, terms) > Overlap(other, terms))

\* The nodes with a score above 0, best first; of equals, the older first.
Ranked(graph, terms) ==
    LET found == Kept(graph.nodes, {i \in DOMAIN graph.nodes : Overlap(graph.nodes[i], terms) > 0})
        Ahead(i) == {j \in DOMAIN found : Better(found[j], found[i], terms)}
        Place(n) == {i \in DOMAIN found : Cardinality(Ahead(i)) = n - 1}
    IN  FlattenSeq([n \in DOMAIN found |-> Kept(found, Place(n))])

\* seq[:n]: a negative n counts from the end.
FirstOf(seq, n) ==
    SubSeq(seq, 1, CASE n < 0 -> Len(seq) + n
                     [] n \in 0..Len(seq) -> n
                     [] n > Len(seq) -> Len(seq))

Relevant(graph, query, limit) ==
    LET best == FirstOf(Ranked(graph, Terms(query)), limit)
    IN  [i \in DOMAIN best |-> best[i].text]

-----------------------------------------------------------------------------
(* Summaries.                                                              *)

\* The first line of a text; sentences and the cap on its length are left out.
Lead(text) ==
    LET trimmed == Trimmed(text)
        end == SelectInSeq(trimmed, LAMBDA t : t = Newline)
    IN  IF end = 0 THEN trimmed ELSE SubSeq(trimmed, 1, end - 1)

\* The distinct leads, in order.  A lead is taken before the most is looked at.
Leads(texts, items) ==
    LET leads == [i \in DOMAIN texts |-> Lead(texts[i])]
        New(i) == leads[i] # << >> /\ \A j \in 1..i - 1 : leads[j] # leads[i]
    IN  FirstOf(FlattenSeq([i \in DOMAIN leads |->
                                IF New(i) THEN <<leads[i]>> ELSE << >>]),
                IF items < 1 THEN 1 ELSE items)

-----------------------------------------------------------------------------
(* Compaction.                                                             *)

IsUser(message) == message.role = "user"

\* Mutant: the window is not extended back to a turn of the user.
WindowStartAnywhere(messages, keep) ==
    IF keep < Len(messages) THEN Len(messages) - keep + 1 ELSE 1

\* The last user message at or before the window of what must be kept; 0 if
\* there is none.
WindowStart(messages, keep) ==
    LET target == IF keep < Len(messages) THEN Len(messages) - keep + 1 ELSE 1
        starts == {i \in 1..target : IsUser(messages[i])}
    IN  IF starts = {} THEN 0 ELSE Max(starts)

\* messages[len(messages)] raises, and the request is left as it was.
LooksPastTheEnd(keep) == keep <= 0

LatestUserText(messages) ==
    MessageText(messages[Max({i \in DOMAIN messages : IsUser(messages[i])})])

Bulleted(header, points) ==
    <<header, Newline>> \o FlattenSeq([i \in DOMAIN points |-> points[i] \o <<Newline>>])
        \o <<Newline>>

\* _rewrite: what is injected is a span no pass may change.
Rewrite(request, start, header) ==
    LET kept == SubSeq(request.messages, start, Len(request.messages))
    IN  [request EXCEPT
            !.messages = <<[kept[1] EXCEPT !.spans = <<Span(header, FALSE)>> \o @]>> \o Tail(kept),
            !.breakpoint = 0]

CanCompact(request, s) ==
    /\ Len(request.messages) > s.minMessages
    /\ ~LooksPastTheEnd(s.keepRecentTurns)
    /\ WindowStart(request.messages, s.keepRecentTurns) > 1

CompactWithMemory(request, graph, s) ==
    LET snippets == Relevant(graph, LatestUserText(request.messages), s.retrieve)
    IN  IF CanCompact(request, s) /\ snippets # << >>
        THEN Rewrite(request, WindowStart(request.messages, s.keepRecentTurns),
                     Bulleted(ContextHeader, snippets))
        ELSE request

CompactBySummary(request, s) ==
    LET start == WindowStart(request.messages, s.keepRecentTurns)
        leads == Leads([i \in 1..start - 1 |-> MessageText(request.messages[i])], s.items)
    IN  IF CanCompact(request, s) /\ leads # << >>
        THEN Rewrite(request, start, Bulleted(SummaryHeader, leads))
        ELSE request
=============================================================================
