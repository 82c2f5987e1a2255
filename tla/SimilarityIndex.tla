-------------------------- MODULE SimilarityIndex --------------------------
(***************************************************************************)
(* The near-duplicate index (parcus.cache.similarity) and its snapshot on  *)
(* disk (parcus.cache.similarity_store): sequences of entries, oldest      *)
(* first, each with the exact key of a stored answer.                      *)
(*                                                                         *)
(* The vector of an entry is abstracted to the text it embeds, and the     *)
(* cosine of two vectors to a score of the two texts.                      *)
(***************************************************************************)
EXTENDS Integers, Sequences

CONSTANTS
    Score,        \* Score[text][text]: similarity of two texts
    Threshold,    \* similarity_threshold: the least score of a near-duplicate
    MaxEntries,   \* similarity_max_entries: the cap of index and snapshot
    NoKey         \* what lookup() returns when it returns None

ASSUME IndexAssumption == Threshold \in Nat /\ MaxEntries \in Nat

\* Mutant: every entry is near enough.
AnyCandidates(index, text, model, tenant) ==
    {i \in DOMAIN index : index[i].model = model /\ index[i].tenant = tenant}

\* The entries lookup() looks at: same model, same tenant, close enough.
Candidates(index, text, model, tenant) ==
    {i \in DOMAIN index :
        /\ index[i].model = model
        /\ index[i].tenant = tenant
        /\ Score[text][index[i].vector] >= Threshold}

\* The best of them, the latest among equals.
Neighbour(index, text, model, tenant) ==
    LET near == Candidates(index, text, model, tenant)
        score(i) == Score[text][index[i].vector]
        Best(i) == \A j \in near :
                      score(j) < score(i) \/ (score(j) = score(i) /\ j <= i)
    IN  IF \E i \in near : Best(i)
        THEN index[CHOOSE i \in near : Best(i)].key
        ELSE NoKey

\* The newest n entries: FIFO eviction of the snapshot, and what loading it
\* into memory keeps.
Newest(entries, n) ==
    IF Len(entries) > n THEN SubSeq(entries, Len(entries) - n + 1, Len(entries))
    ELSE entries

\* Mutant: nothing is evicted.
RememberedForever(index, e) == Append(index, e)

\* remember(): append, then evict the oldest when over the cap.
Remembered(index, e) ==
    LET longer == Append(index, e) IN
    IF Len(longer) > MaxEntries THEN Tail(longer) ELSE longer

\* append() of the snapshot: insert, then delete all but the newest rows.
Persisted(snapshot, e) == Newest(Append(snapshot, e), MaxEntries)
=============================================================================
