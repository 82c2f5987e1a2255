--------------------------- MODULE ResponseCache ---------------------------
(***************************************************************************)
(* The exact response cache (parcus.cache.sqlite_cache over a key of       *)
(* parcus.cache.key): rows that expire by the wall clock, are deleted when *)
(* a read finds them expired, and are replaced by a later store.           *)
(*                                                                         *)
(* The table is a function from the keys stored to their rows; a row is    *)
(* the answer it replays and the time it expires.                          *)
(***************************************************************************)
EXTENDS Integers

CONSTANTS
    TTL,        \* cache_ttl_seconds, in clock ticks
    NoAnswer    \* what get() returns when it returns None

ASSUME TTLAssumption == TTL \in Nat

NoRows == [k \in {} |-> NoAnswer]

\* Mutant: a row is good at the very instant it expires.
FreshAtExpiry(rows, k, t) == k \in DOMAIN rows /\ t <= rows[k].expires

Fresh(rows, k, t) == k \in DOMAIN rows /\ t < rows[k].expires

\* The value get(key) returns at time t.
Found(rows, k, t) == IF Fresh(rows, k, t) THEN rows[k].answer ELSE NoAnswer

\* ... and the table it leaves: an expired row is gone.
AfterGet(rows, k, t) ==
    IF Fresh(rows, k, t) THEN rows ELSE [x \in DOMAIN rows \ {k} |-> rows[x]]

\* put(key, value, ttl): nothing for a TTL of zero, else insert or replace.
AfterPut(rows, k, a, t) ==
    IF TTL = 0 THEN rows
    ELSE [x \in DOMAIN rows \union {k} |->
             IF x = k THEN [answer |-> a, expires |-> t + TTL] ELSE rows[x]]
=============================================================================
