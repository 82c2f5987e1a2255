----------------------------- MODULE PrefixSeen -----------------------------
(***************************************************************************)
(* The seen-set of parcus.cache.seen: which prompt prefixes were sent not  *)
(* long ago.  An OrderedDict is a function from its keys; the order it     *)
(* keeps is the turn at which a key was last inserted.                     *)
(***************************************************************************)
EXTENDS Integers, FiniteSets

CONSTANTS
    SeenMax,   \* max_entries
    SeenTTL    \* ttl_seconds

ASSUME SeenAssumption == SeenMax \in Int /\ SeenTTL \in Int

Cap == IF SeenMax > 1 THEN SeenMax ELSE 1

NothingSeen == [k \in {} |-> 0]

SeenRecently(seen, k, now) == k \in DOMAIN seen /\ now - seen[k].at <= SeenTTL

\* The entries inserted after that of k.
NewerIn(seen, k) == {j \in DOMAIN seen : seen[j].turn > seen[k].turn}

\* Mutant: one entry too many is kept.
OneTooMany(seen) ==
    [k \in {j \in DOMAIN seen : Cardinality(NewerIn(seen, j)) <= Cap} |-> seen[k]]

\* What is left once the oldest are popped until the rest is within the cap.
Evicted(seen) ==
    [k \in {j \in DOMAIN seen : Cardinality(NewerIn(seen, j)) < Cap} |-> seen[k]]

\* Mutant: a key that is present keeps its place in the order.
InsertedInPlace(seen, k, now, turn) ==
    [j \in DOMAIN seen \union {k} |->
        IF j # k THEN seen[j]
        ELSE [at |-> now, turn |-> IF k \in DOMAIN seen THEN seen[k].turn ELSE turn]]

\* pop and reinsert: the newest entry, whether it was there or not.
Inserted(seen, k, now, turn) ==
    [j \in DOMAIN seen \union {k} |->
        IF j = k THEN [at |-> now, turn |-> turn] ELSE seen[j]]

\* record_and_check leaves this, having answered SeenRecently.
Sighted(seen, k, now, turn) == Evicted(Inserted(seen, k, now, turn))
=============================================================================
