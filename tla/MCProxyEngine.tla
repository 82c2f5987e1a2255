---------------------------- MODULE MCProxyEngine ----------------------------
(***************************************************************************)
(* Small instances of the proxy engine.  A request is a variation on Plain; *)
(* a run picks the requests its clients may send.                           *)
(***************************************************************************)
EXTENDS ProxyEngine, TLC

CONSTANT none   \* a model value: what is absent

SlotSymmetry == Permutations(Slots)

MCDigest == [c \in {"c1", "c2"} |-> IF c = "c1" THEN "t1" ELSE "t2"]

\* An OpenAI request of the first client, with no turns to compact.
Plain ==
    [xkey |-> none, bearer |-> "c1", goog |-> none, version |-> FALSE,
     dialect |-> "openai", parses |-> TRUE, model |-> "m", turns |-> "hi",
     text |-> "hi", tools |-> none, params |-> "hot", secret |-> FALSE,
     long |-> FALSE, stream |-> FALSE]

Secret == [Plain EXCEPT !.turns = "key", !.text = "key", !.secret = TRUE]
Streamed == [Plain EXCEPT !.stream = TRUE]
Nearly == [Plain EXCEPT !.turns = "hi!", !.text = "hi!"]
Unrelated == [Plain EXCEPT !.turns = "bye", !.text = "bye"]
Nearby == [Nearly EXCEPT !.dialect = "anthropic"]
Long == [Plain EXCEPT !.long = TRUE, !.turns = "long", !.text = "long"]
LongToo == [Plain EXCEPT !.long = TRUE]
Pathless == [Plain EXCEPT !.dialect = "gemini", !.goog = "g1", !.bearer = none,
                          !.model = none]
GeminiOne == [Pathless EXCEPT !.model = "g"]
Astray == [Plain EXCEPT !.dialect = "unknown", !.bearer = none]
Legacy == [Plain EXCEPT !.dialect = "unknown"]
OfSecond(r) == [r EXCEPT !.bearer = "c2"]

\* "hi" and "hi!" are near-duplicates, and nothing else is.
MCTexts == {"hi", "hi!", "bye", "key", "long"}
MCScore ==
    [x \in MCTexts |-> [y \in MCTexts |->
        IF x = y THEN 10 ELSE IF {x, y} = {"hi", "hi!"} THEN 9 ELSE 0]]

NoFaults == {{}}
StoreFaults ==
    {{}, {"redactor"}, {"get"}, {"put"}, {"lookup"}, {"remember"}, {"persist"}, {"load"}}
MemoryFaults == {{}, {"memory"}}
AllFaults == {{}, Inbound \union Outbound \union Startup}

StoreRequests == {Plain, Secret, Nearly, Unrelated}
TenantRequests == {Long, Plain, OfSecond(LongToo), GeminiOne}
QuotaRequests == {Plain, Streamed, Long, Legacy, Astray}
DialectRequests == {Plain, Nearby}
=============================================================================
