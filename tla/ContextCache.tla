---------------------------- MODULE ContextCache ----------------------------
(***************************************************************************)
(* The registrar of parcus.cache.context_cache: it keeps a handle for each *)
(* prefix it has registered with the provider, so that the next request    *)
(* with that prefix refers to the provider's copy instead of sending it.   *)
(*                                                                         *)
(* ensure() awaits the provider, so callers overlap: each one looks at the *)
(* handles and at the spend cap before the await and stores its handle     *)
(* after it.  The provider's side is external: it registers a copy at some *)
(* time between the two, and drops it ProviderTTL later.                   *)
(***************************************************************************)
EXTENDS Integers, FiniteSets

CONSTANTS
    Callers,       \* the requests that may call ensure() at the same time
    Prefixes,      \* what they may ask for: records of cred, model and text
    NoModel,       \* model=None
    TTL,           \* ttl_seconds
    ProviderTTL,   \* how long the provider keeps a copy
    MaxEntries,    \* max_entries: the spend cap
    PruneFactor,   \* _PRUNE_FACTOR
    MaxTime, MaxRestarts, MaxCopies   \* bounds: time, restarts, copies made

ASSUME RegistrarAssumption ==
    /\ IsFiniteSet(Callers) /\ Callers # {}
    /\ {TTL, ProviderTTL, MaxEntries, PruneFactor} \subseteq Nat
    /\ PruneFactor >= 1
    /\ TTL <= ProviderTTL     \* "(<= the provider TTL)"
    /\ {MaxTime, MaxRestarts, MaxCopies} \subseteq Nat

VARIABLES
    now,       \* the clock
    handles,   \* _handles: key -> handle
    calls,     \* per caller: idle, in the await, or done with a result
    copies,    \* external: every copy the provider has ever registered
    restarts   \* history

vars == <<now, handles, calls, copies, restarts>>

-----------------------------------------------------------------------------

\* Mutant: the credential is left out of the key.
AnyonesKey(p) == [model |-> p.model, text |-> p.text]

\* _key(): None and the empty model are one.
HandleKey(p) ==
    [cred |-> p.cred, model |-> (IF p.model = NoModel THEN "" ELSE p.model), text |-> p.text]

Keys == {HandleKey(p) : p \in Prefixes}

Expired(h) == now >= h.expires
NoHandles == [k \in {} |-> 0]
Without(hs, gone) == [k \in DOMAIN hs \ gone |-> hs[k]]

LiveKeys(hs) == {k \in DOMAIN hs : ~Expired(hs[k])}
Pruned(hs) == Without(hs, {k \in DOMAIN hs : Expired(hs[k])})

\* Mutant: the map is never pruned.
Unkempt(hs) == hs

\* ensure() prunes when the map has outgrown the cap.
Kempt(hs) ==
    IF Cardinality(DOMAIN hs) > MaxEntries * PruneFactor THEN Pruned(hs) ELSE hs

Idle == [state |-> "idle"]
NoCopy == 0
Creating(p, copy, since) ==
    [state |-> "creating", prefix |-> p, copy |-> copy, since |-> since]
Done(p, copy) == [state |-> "done", prefix |-> p, copy |-> copy]

Ready(c) == calls[c].state # "creating"
Finish(c, p, copy) == calls' = [calls EXCEPT ![c] = Done(p, copy)]

-----------------------------------------------------------------------------
(* ensure() up to its await.                                               *)

\* A live handle is there.
Reuse(c, p) ==
    LET hs == Kempt(handles) k == HandleKey(p) IN
    /\ Ready(c)
    /\ k \in LiveKeys(hs)
    /\ handles' = hs
    /\ Finish(c, p, hs[k].copy)
    /\ UNCHANGED <<now, copies, restarts>>

\* A miss: a stale handle of that key is dropped, and the cap looked at.
Miss(c, p) ==
    LET hs == Kempt(handles) k == HandleKey(p) IN
    /\ Ready(c)
    /\ k \notin LiveKeys(hs)
    /\ handles' = Without(hs, {k})

\* Mutant: the cap is compared with one too few.
BelowCapLoosely(hs) == Cardinality(LiveKeys(hs)) <= MaxEntries

BelowCap(hs) == Cardinality(LiveKeys(hs)) < MaxEntries

Decline(c, p) ==
    /\ Miss(c, p)
    /\ ~BelowCap(handles')
    /\ Finish(c, p, NoCopy)
    /\ UNCHANGED <<now, copies, restarts>>

Request(c, p) ==
    /\ Miss(c, p)
    /\ BelowCap(handles')
    /\ calls' = [calls EXCEPT ![c] = Creating(p, NoCopy, now)]
    /\ UNCHANGED <<now, copies, restarts>>

-----------------------------------------------------------------------------
(* During the await, and after it.                                         *)

\* External: the provider registers the copy.
Register(c) ==
    LET id == Cardinality(copies) + 1 IN
    /\ ~Ready(c) /\ calls[c].copy = NoCopy
    /\ id <= MaxCopies
    /\ copies' = copies \union {[id |-> id, prefix |-> calls[c].prefix, until |-> now + ProviderTTL]}
    /\ calls' = [calls EXCEPT ![c].copy = id]
    /\ UNCHANGED <<now, handles, restarts>>

\* Mutant: the lifetime is counted from the answer.
HandleFromAnswer(call) == [copy |-> call.copy, expires |-> now + TTL]

\* The handle's lifetime is counted from before the await.
Handle(call) == [copy |-> call.copy, expires |-> call.since + TTL]

\* Mutant: the handle is stored under what was asked for, not under its key.
StoreUnnormalized(c) ==
    LET call == calls[c] IN
    /\ ~Ready(c) /\ call.copy # NoCopy
    /\ handles' = [x \in DOMAIN handles \union {call.prefix} |->
                      IF x = call.prefix THEN Handle(call) ELSE handles[x]]
    /\ Finish(c, call.prefix, call.copy)
    /\ UNCHANGED <<now, copies, restarts>>

\* ensure() resumes with the copy's name.
Store(c) ==
    LET call == calls[c] k == HandleKey(call.prefix) IN
    /\ ~Ready(c) /\ call.copy # NoCopy
    /\ handles' = [x \in DOMAIN handles \union {k} |->
                      IF x = k THEN Handle(call) ELSE handles[x]]
    /\ Finish(c, call.prefix, call.copy)
    /\ UNCHANGED <<now, copies, restarts>>

\* ensure() resumes with an exception: refused, or the answer was lost.
CreateFails(c) ==
    /\ ~Ready(c)
    /\ Finish(c, calls[c].prefix, NoCopy)
    /\ UNCHANGED <<now, handles, copies, restarts>>

EvictExpired ==
    /\ handles' = Pruned(handles)
    /\ UNCHANGED <<now, calls, copies, restarts>>

Tick ==
    /\ now < MaxTime
    /\ now' = now + 1
    /\ UNCHANGED <<handles, calls, copies, restarts>>

\* The process restarts: the handles are gone, the provider's copies are not.
Restart ==
    /\ restarts < MaxRestarts
    /\ restarts' = restarts + 1
    /\ handles' = NoHandles
    /\ calls' = [c \in Callers |-> Idle]
    /\ UNCHANGED <<now, copies>>

Init ==
    /\ now = 0
    /\ handles = NoHandles
    /\ calls = [c \in Callers |-> Idle]
    /\ copies = {}
    /\ restarts = 0

Next ==
    \/ \E c \in Callers, p \in Prefixes : Reuse(c, p) \/ Decline(c, p) \/ Request(c, p)
    \/ \E c \in Callers : Register(c) \/ Store(c) \/ CreateFails(c)
    \/ EvictExpired
    \/ Tick
    \/ Restart

Spec == Init /\ [][Next]_vars

-----------------------------------------------------------------------------
(***************************************************************************)
(* Properties.                                                             *)
(***************************************************************************)

TypeOK ==
    /\ now \in Nat
    /\ DOMAIN handles \subseteq Keys
    /\ \A k \in DOMAIN handles : handles[k] \in [copy : Nat \ {NoCopy}, expires : Nat]
    /\ calls \in [Callers ->
            {Idle}
            \union [state : {"creating"}, prefix : Prefixes, copy : Nat, since : Nat]
            \union [state : {"done"}, prefix : Prefixes, copy : Nat]]
    /\ copies \subseteq [id : Nat, prefix : Prefixes, until : Nat]
    /\ restarts \in Nat

InFlight == {c \in Callers : ~Ready(c)}

\* The spend cap under concurrency: the check and the store are on the two
\* sides of an await, yet the live handles and those on their way exceed the
\* cap by no more than the other callers that can be in the await.
CapSlack ==
    Cardinality(LiveKeys(handles)) + Cardinality(InFlight)
        <= MaxEntries + Cardinality(Callers) - 1

\* Memory stays bounded with no scheduler to prune it, by the callers alone:
\* expired handles do not pile up beyond the prune threshold.
MapBounded ==
    Cardinality(DOMAIN handles) + Cardinality(InFlight)
        <= MaxEntries * PruneFactor + Cardinality(Callers)

\* A handle that would be reused refers to a copy the provider still has, made
\* for the handle's own key, however long the registration took.
LiveHandlesBacked ==
    \A k \in LiveKeys(handles) :
        \E x \in copies :
            /\ x.id = handles[k].copy
            /\ HandleKey(x.prefix) = k
            /\ now < x.until

\* A caller gets no other credential's copy, and no other prefix's.
OwnCopy ==
    \A c \in Callers :
        calls[c].state = "done" /\ calls[c].copy # NoCopy =>
            \E x \in copies :
                /\ x.id = calls[c].copy
                /\ x.prefix.cred = calls[c].prefix.cred
                /\ x.prefix.text = calls[c].prefix.text
=============================================================================
