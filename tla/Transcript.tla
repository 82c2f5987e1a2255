----------------------------- MODULE Transcript -----------------------------
(***************************************************************************)
(* A conversation as it is on the wire and as the engine sees it           *)
(* (parcus.model, parcus.spans, parcus.proxy.dialects).                    *)
(*                                                                         *)
(* A text is a sequence of tokens: blanks, line ends, words, and fenced    *)
(* code blocks, each of which is one token.  Two tokens that are not       *)
(* blanks and stand side by side are read as one word.                     *)
(***************************************************************************)
EXTENDS Integers, SequencesExt

CONSTANTS
    Fences,     \* the tokens that are a closed fenced code block
    NoSystem,   \* system=None
    NoRaw,      \* raw=None
    Unread      \* parse() returned None

Space == " "
Newline == "\n"
Blanks == {Space, Newline}

\* How JSON writes what is a token of its own: the start of an object, a line
\* end within a string, the key of a marker.
Brace == "{"
Escape == "\\n"
CacheControl == "cache_control"

(***************************************************************************)
(* A body has a system prompt, messages (the contents of Gemini), tools,   *)
(* and asks for a stream or not.  The content of a message is              *)
(*   "text"     a string (of Gemini: a single part, a text)                *)
(*   "blocks"   a list of blocks                                           *)
(*   "other"    anything else: several parts, further keys, none at all    *)
(* and a system prompt is "none", "text" or "other".  A block has a type,  *)
(* the text of a text block, the payload of a tool result, an id that      *)
(* pairs calls and results, and perhaps a cache_control marker.  Tools are *)
(* the text of their JSON, where a marker is the token of its key.         *)
(***************************************************************************)
Content(kind, text, blocks) == [kind |-> kind, text |-> text, blocks |-> blocks]
Item(role, content) == [role |-> role, content |-> content]
TextBlock(text, cached) ==
    [type |-> "text", id |-> "", text |-> text, payload |-> << >>, cached |-> cached]

Dialects == {"anthropic", "openai", "gemini"}

Texts == Seq(STRING)

Blocks == [type : STRING, id : STRING, text : Texts, payload : Texts, cached : BOOLEAN]

\* A list of blocks has no text, and anything else no blocks.
Contents ==
    {c \in [kind : {"none", "text", "blocks", "other"}, text : Texts, blocks : Seq(Blocks)] :
        IF c.kind = "blocks" THEN c.text = << >> ELSE c.blocks = << >>}

Items == [role : STRING, content : Contents]

\* What a content holds, read from left to right.
AllText(content) ==
    content.text \o FlattenSeq([i \in DOMAIN content.blocks |->
                                    content.blocks[i].text \o content.blocks[i].payload])

\* What json.dumps makes of an item, but for the keys and brackets that every
\* item of its kind has: a marker, the strings with their line ends escaped, ids,
\* types and the role.
Quoted(text) == [i \in DOMAIN text |-> IF text[i] = Newline THEN Escape ELSE text[i]]

BlockJson(block) ==
    (IF block.cached THEN <<CacheControl>> ELSE << >>) \o Quoted(block.payload)
        \o <<block.id>> \o Quoted(block.text) \o <<block.type>>

ItemJson(item) ==
    <<Brace>> \o Quoted(item.content.text)
        \o FlattenSeq([i \in DOMAIN item.content.blocks |-> BlockJson(item.content.blocks[i])])
        \o <<item.role>>

\* The elements of a sequence at some of its places.
Kept(seq, places) ==
    FlattenSeq([i \in DOMAIN seq |-> IF i \in places THEN <<seq[i]>> ELSE << >>])

-----------------------------------------------------------------------------
(* Spans.                                                                  *)

Span(text, mutable) == [text |-> text, mutable |-> mutable]

\* classify_spans: prose and code alternate, and there is at least one span.
Spans(text) ==
    LET Next(spans, t) ==
            IF t \in Fences THEN Append(spans, Span(<<t>>, FALSE))
            ELSE IF spans # << >> /\ Last(spans).mutable
            THEN [spans EXCEPT ![Len(spans)].text = Append(@, t)]
            ELSE Append(spans, Span(<<t>>, TRUE))
        upTo[n \in 0..Len(text)] ==
            IF n = 0 THEN << >> ELSE Next(upTo[n - 1], text[n])
    IN  IF text = << >> THEN <<Span(<< >>, TRUE)>> ELSE upTo[Len(text)]

SpanSet == [text : Texts, mutable : BOOLEAN]

SpansText(spans) == FlattenSeq([i \in DOMAIN spans |-> spans[i].text])

\* A structured message has no spans.
Messages ==
    {m \in [role : STRING, spans : Seq(SpanSet), raw : Items \union {NoRaw}] :
        m.raw # NoRaw => m.spans = << >>}

Requests ==
    [dialect : Dialects, system : Texts \union {NoSystem}, messages : Seq(Messages),
     tools : Texts, breakpoint : Nat]

\* What the program writes by itself is made of strings, and the values that
\* stand for nothing are none of the things they stand beside.
ASSUME TokenAssumption ==
    /\ Fences \union Blanks \union {"", "user", "text", Brace, Escape, CacheControl} \subseteq STRING
    /\ Fences \intersect Blanks = {}
    /\ NoSystem \notin Texts /\ NoRaw \notin Items
    /\ Unread \notin Messages /\ Unread \notin Requests

\* Message.text; of a structured message it is a view of its JSON.
MessageText(message) ==
    IF message.raw = NoRaw THEN SpansText(message.spans) ELSE ItemJson(message.raw)

\* CanonicalRequest.text
RequestText(request) ==
    (IF request.system = NoSystem THEN << >> ELSE request.system)
        \o FlattenSeq([i \in DOMAIN request.messages |-> MessageText(request.messages[i])])

-----------------------------------------------------------------------------
(* Parsing.                                                                *)

TextRoles(dialect) ==
    IF dialect = "openai" THEN {"system", "user", "assistant"} ELSE {"user", "assistant"}

Known(dialect, role) ==
    dialect = "gemini" \/ role \in {"system", "user", "assistant", "tool"}

\* Gemini keeps a structured item whose role it does not know as the user's.
RoleOf(dialect, role) ==
    IF dialect = "gemini" /\ role \notin TextRoles(dialect) THEN "user" ELSE role

MessageOf(dialect, item, structured) ==
    IF item.role \in TextRoles(dialect) /\ item.content.kind = "text"
    THEN [role |-> item.role, spans |-> Spans(item.content.text), raw |-> NoRaw]
    ELSE IF structured
    THEN [role |-> RoleOf(dialect, item.role), spans |-> << >>, raw |-> item]
    ELSE Unread

Parsed(dialect, body, structured) ==
    LET messages == [i \in DOMAIN body.items |-> MessageOf(dialect, body.items[i], structured)]
    IN  IF \/ dialect \notin Dialects
           \/ dialect # "openai" /\ body.system.kind = "other"
           \/ \E i \in DOMAIN body.items :
                 ~Known(dialect, body.items[i].role) \/ messages[i] = Unread
        THEN Unread
        ELSE [dialect |-> dialect,
              system |-> IF dialect = "openai" \/ body.system.kind = "none"
                         THEN NoSystem ELSE body.system.text,
              messages |-> messages,
              tools |-> body.tools,
              breakpoint |-> 0]

-----------------------------------------------------------------------------
(* Serializing.                                                            *)

\* _mark_raw: the last block of a list of blocks, if there is one.
Marked(item) ==
    IF item.content.kind = "blocks" /\ item.content.blocks # << >>
    THEN [item EXCEPT !.content.blocks[Len(item.content.blocks)].cached = TRUE]
    ELSE item

\* Only Anthropic is given the marker.
BreakpointIndex(request) ==
    IF request.dialect = "anthropic" /\ request.breakpoint \in DOMAIN request.messages
    THEN request.breakpoint ELSE 0

ItemOf(message, marked) ==
    IF message.raw # NoRaw THEN (IF marked THEN Marked(message.raw) ELSE message.raw)
    ELSE Item(message.role,
              IF marked
              THEN Content("blocks", << >>, <<TextBlock(MessageText(message), TRUE)>>)
              ELSE Content("text", MessageText(message), << >>))

\* Mutant: the system prompt is left as the client wrote it.
SerializedMessages(request, body) ==
    [body EXCEPT
        !.items = [i \in DOMAIN request.messages |->
                      ItemOf(request.messages[i], i = BreakpointIndex(request))]]

Serialized(request, body) ==
    [body EXCEPT
        !.items = [i \in DOMAIN request.messages |->
                      ItemOf(request.messages[i], i = BreakpointIndex(request))],
        !.system = IF request.dialect # "openai" /\ request.system # NoSystem
                   THEN Content("text", request.system, << >>)
                   ELSE @]
=============================================================================
