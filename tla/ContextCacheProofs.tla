------------------------- MODULE ContextCacheProofs -------------------------
(***************************************************************************)
(* Proofs about the registrar, for every number of callers and prefixes,   *)
(* every cap, prune factor and lifetime.                                   *)
(***************************************************************************)
EXTENDS ContextCache, FiniteSetTheorems, TLAPS

Calls ==
    {Idle}
    \union [state : {"creating"}, prefix : Prefixes, copy : Nat, since : Nat]
    \union [state : {"done"}, prefix : Prefixes, copy : Nat]

Handles(hs) ==
    /\ DOMAIN hs \subseteq Keys
    /\ IsFiniteSet(DOMAIN hs)
    /\ \A k \in DOMAIN hs : hs[k] \in [copy : Nat \ {NoCopy}, expires : Nat]

Shapes ==
    /\ now \in Nat
    /\ Handles(handles)
    /\ calls \in [Callers -> Calls]
    /\ copies \subseteq [id : Nat, prefix : Prefixes, until : Nat]
    /\ IsFiniteSet(copies)
    /\ restarts \in Nat

\* What ensure() leaves of the handles before its await.
Thinned(hs, less) ==
    /\ DOMAIN less \subseteq DOMAIN hs
    /\ \A k \in DOMAIN less : less[k] = hs[k]

-----------------------------------------------------------------------------
(* The handles.                                                            *)

LEMMA PrunedThins ==
    ASSUME NEW hs PROVE Thinned(hs, Pruned(hs)) /\ DOMAIN Pruned(hs) = LiveKeys(hs)
BY DEF Thinned, Pruned, Without, LiveKeys

LEMMA KemptThins ==
    ASSUME NEW hs
    PROVE  /\ Thinned(hs, Kempt(hs))
           /\ LiveKeys(Kempt(hs)) = LiveKeys(hs)
           /\ Kempt(hs) = hs \/ DOMAIN Kempt(hs) = LiveKeys(hs)
<1>1. CASE Kempt(hs) = hs
  BY <1>1 DEF Thinned
<1>2. CASE Kempt(hs) = Pruned(hs)
  <2>1. LiveKeys(Pruned(hs)) = LiveKeys(hs)
    BY PrunedThins DEF LiveKeys, Thinned, Expired
  <2> QED
    BY <1>2, <2>1, PrunedThins
<1> QED
  BY <1>1, <1>2 DEF Kempt

\* Dropping the stale handle of a key leaves the live ones of the others.
LEMMA WithoutThins ==
    ASSUME NEW hs, NEW k, k \notin LiveKeys(hs)
    PROVE  /\ Thinned(hs, Without(hs, {k}))
           /\ LiveKeys(Without(hs, {k})) = LiveKeys(hs)
<1> DEFINE less == Without(hs, {k})
<1>1. DOMAIN less = DOMAIN hs \ {k} /\ \A x \in DOMAIN less : less[x] = hs[x]
  BY DEF Without
<1> QED
  BY <1>1 DEF Thinned, LiveKeys, Expired

LEMMA ThinnedTrans ==
    ASSUME NEW a, NEW b, NEW c, Thinned(a, b), Thinned(b, c)
    PROVE  Thinned(a, c)
BY DEF Thinned

LEMMA ThinnedHandles ==
    ASSUME NEW hs, NEW less, Handles(hs), Thinned(hs, less)
    PROVE  /\ Handles(less)
           /\ LiveKeys(less) \subseteq LiveKeys(hs)
           /\ Cardinality(DOMAIN less) <= Cardinality(DOMAIN hs)
<1>1. /\ IsFiniteSet(DOMAIN less)
      /\ Cardinality(DOMAIN less) <= Cardinality(DOMAIN hs)
  BY FS_Subset DEF Handles, Thinned
<1> QED
  BY <1>1 DEF Handles, Thinned, LiveKeys, Expired

\* Live handles are counted.
LEMMA LiveCount ==
    ASSUME NEW hs, Handles(hs)
    PROVE  /\ IsFiniteSet(LiveKeys(hs))
           /\ Cardinality(LiveKeys(hs)) \in Nat /\ Cardinality(DOMAIN hs) \in Nat
           /\ Cardinality(LiveKeys(hs)) <= Cardinality(DOMAIN hs)
<1>1. LiveKeys(hs) \subseteq DOMAIN hs /\ IsFiniteSet(DOMAIN hs)
  BY DEF LiveKeys, Handles
<1> QED
  BY <1>1, FS_Subset, FS_CardinalityType

-----------------------------------------------------------------------------
(* The steps.                                                              *)

\* Reuse and a miss look after the handles and touch no live one.
LEMMA ReuseThins ==
    ASSUME NEW c \in Callers, NEW p \in Prefixes, Reuse(c, p)
    PROVE  Thinned(handles, handles') /\ LiveKeys(handles') = LiveKeys(handles)
BY KemptThins DEF Reuse

LEMMA MissThins ==
    ASSUME NEW c \in Callers, NEW p \in Prefixes, Miss(c, p)
    PROVE  /\ Thinned(handles, handles') /\ LiveKeys(handles') = LiveKeys(handles)
           /\ Thinned(Kempt(handles), handles')
<1> DEFINE hs == Kempt(handles)
           k  == HandleKey(p)
<1>1. k \notin LiveKeys(hs) /\ handles' = Without(hs, {k})
  BY DEF Miss
<1>2. /\ Thinned(hs, Without(hs, {k})) /\ LiveKeys(Without(hs, {k})) = LiveKeys(hs)
  BY <1>1, WithoutThins
<1>3. Thinned(handles, hs) /\ LiveKeys(hs) = LiveKeys(handles)
  BY KemptThins
<1>4. Thinned(handles, Without(hs, {k}))
  BY <1>2, <1>3, ThinnedTrans
<1> QED
  BY <1>1, <1>2, <1>3, <1>4

LEMMA ShapesInductive == Shapes /\ [Next]_vars => Shapes'
<1> SUFFICES ASSUME Shapes, [Next]_vars PROVE Shapes'
  OBVIOUS
<1> USE RegistrarAssumption
<1>c. ASSUME NEW c \in Callers, NEW r \in Calls, calls' = [calls EXCEPT ![c] = r]
      PROVE  calls' \in [Callers -> Calls]
  BY <1>c DEF Shapes
<1>d. ASSUME NEW p \in Prefixes, NEW copy \in Nat
      PROVE  Done(p, copy) \in Calls
  BY DEF Done, Calls
<1>t. ASSUME Thinned(handles, handles') PROVE Handles(handles')
  BY <1>t, ThinnedHandles DEF Shapes
<1>1. ASSUME NEW c \in Callers, NEW p \in Prefixes, Reuse(c, p)
      PROVE  Shapes'
  <2>1. Thinned(handles, handles')
    BY <1>1, ReuseThins
  <2>2. HandleKey(p) \in DOMAIN handles'
    BY <1>1 DEF Reuse, LiveKeys
  <2>3. handles'[HandleKey(p)].copy \in Nat
    BY <2>1, <2>2, <1>t DEF Handles
  <2>4. calls' \in [Callers -> Calls]
    BY <1>1, <2>3, <1>c, <1>d DEF Reuse, Finish
  <2> QED
    BY <1>1, <2>1, <2>4, <1>t DEF Reuse, Shapes
<1>2. ASSUME NEW c \in Callers, NEW p \in Prefixes, Decline(c, p)
      PROVE  Shapes'
  <2>1. Thinned(handles, handles')
    BY <1>2, MissThins DEF Decline
  <2>2. calls' \in [Callers -> Calls]
    BY <1>2, <1>c, <1>d DEF Decline, Finish, NoCopy
  <2> QED
    BY <1>2, <2>1, <2>2, <1>t DEF Decline, Shapes
<1>3. ASSUME NEW c \in Callers, NEW p \in Prefixes, Request(c, p)
      PROVE  Shapes'
  <2>1. Thinned(handles, handles')
    BY <1>3, MissThins DEF Request
  <2>2. Creating(p, NoCopy, now) \in Calls
    BY DEF Creating, Calls, NoCopy, Shapes
  <2>3. calls' \in [Callers -> Calls]
    BY <1>3, <2>2, <1>c DEF Request
  <2> QED
    BY <1>3, <2>1, <2>3, <1>t DEF Request, Shapes
<1>4. ASSUME NEW c \in Callers, Register(c)
      PROVE  Shapes'
  <2> DEFINE id == Cardinality(copies) + 1
             x  == [id |-> id, prefix |-> calls[c].prefix, until |-> now + ProviderTTL]
  <2>1. id \in Nat
    BY FS_CardinalityType DEF Shapes
  <2>2. calls[c] \in [state : {"creating"}, prefix : Prefixes, copy : Nat, since : Nat]
    BY <1>4 DEF Register, Ready, Shapes, Calls, Idle
  <2>3. x \in [id : Nat, prefix : Prefixes, until : Nat]
    BY <2>1, <2>2 DEF Shapes
  <2>4. IsFiniteSet(copies \union {x})
    BY FS_AddElement DEF Shapes
  <2>5. copies' = copies \union {x} /\ calls' = [calls EXCEPT ![c].copy = id]
    BY <1>4 DEF Register
  <2>6. [calls[c] EXCEPT !.copy = id] \in Calls
    BY <2>1, <2>2 DEF Calls
  <2>7. calls' \in [Callers -> Calls]
    BY <2>5, <2>6 DEF Shapes
  <2> QED
    BY <1>4, <2>3, <2>4, <2>5, <2>7 DEF Register, Shapes
<1>5. ASSUME NEW c \in Callers, Store(c)
      PROVE  Shapes'
  <2> DEFINE call == calls[c]
             k    == HandleKey(call.prefix)
  <2>1. call \in [state : {"creating"}, prefix : Prefixes, copy : Nat, since : Nat]
    BY <1>5 DEF Store, Ready, Shapes, Calls, Idle
  <2>2. Handle(call) \in [copy : Nat \ {NoCopy}, expires : Nat] /\ k \in Keys
    BY <1>5, <2>1 DEF Store, Handle, Keys
  <2>3. /\ DOMAIN handles' = DOMAIN handles \union {k}
        /\ \A y \in DOMAIN handles' :
              handles'[y] = IF y = k THEN Handle(call) ELSE handles[y]
    BY <1>5 DEF Store
  <2>4. Handles(handles')
    BY <2>2, <2>3, FS_AddElement DEF Shapes, Handles
  <2>5. calls' \in [Callers -> Calls]
    BY <1>5, <2>1, <1>c, <1>d DEF Store, Finish
  <2> QED
    BY <1>5, <2>4, <2>5 DEF Store, Shapes
<1>6. ASSUME NEW c \in Callers, CreateFails(c)
      PROVE  Shapes'
  <2>1. calls[c].prefix \in Prefixes
    BY <1>6 DEF CreateFails, Ready, Shapes, Calls, Idle
  <2>2. calls' \in [Callers -> Calls]
    BY <1>6, <2>1, <1>c, <1>d DEF CreateFails, Finish, NoCopy
  <2> QED
    BY <1>6, <2>2 DEF CreateFails, Shapes
<1>7. CASE EvictExpired
  <2>1. Handles(handles')
    BY <1>7, <1>t, PrunedThins DEF EvictExpired
  <2> QED
    BY <1>7, <2>1 DEF EvictExpired, Shapes
<1>8. CASE Tick
  BY <1>8 DEF Tick, Shapes
<1>9. CASE Restart
  <2>1. Handles(NoHandles)
    BY FS_EmptySet DEF Handles, NoHandles
  <2>2. [c \in Callers |-> Idle] \in [Callers -> Calls]
    BY DEF Calls
  <2> QED
    BY <1>9, <2>1, <2>2 DEF Restart, Shapes
<1>10. CASE UNCHANGED vars
  BY <1>10 DEF vars, Shapes
<1> QED
  BY <1>1, <1>2, <1>3, <1>4, <1>5, <1>6, <1>7, <1>8, <1>9, <1>10 DEF Next

LEMMA ShapesInit == Init => Shapes
<1> SUFFICES ASSUME Init PROVE Shapes
  OBVIOUS
<1>1. Handles(NoHandles)
  BY FS_EmptySet DEF Handles, NoHandles
<1>2. [c \in Callers |-> Idle] \in [Callers -> Calls]
  BY DEF Calls
<1> QED
  BY <1>1, <1>2, FS_EmptySet DEF Init, Shapes

LEMMA ShapesAlways == Spec => []Shapes
BY ShapesInit, ShapesInductive, PTL DEF Spec

\* Every handle, call and copy keeps its shape, whatever overlaps.
THEOREM TypeCorrect == Spec => []TypeOK
<1>1. Shapes => TypeOK
  BY DEF Shapes, TypeOK, Handles, Calls
<1> QED
  BY <1>1, ShapesAlways, PTL

-----------------------------------------------------------------------------
(* The bounds: handles and calls in the await, counted together.           *)

LEMMA InFlightCount ==
    /\ IsFiniteSet(InFlight) /\ Cardinality(InFlight) \in Nat
    /\ Cardinality(Callers) \in Nat /\ Cardinality(Callers) >= 1
    /\ Cardinality(InFlight) <= Cardinality(Callers)
<1>1. InFlight \subseteq Callers
  BY DEF InFlight
<1>2. Cardinality(Callers) \in Nat /\ Cardinality(Callers) # 0
  BY RegistrarAssumption, FS_CardinalityType, FS_EmptySet
<1> QED
  BY <1>1, <1>2, RegistrarAssumption, FS_Subset, FS_CardinalityType

\* The number of calls in the await after a step.
LEMMA InFlightStep ==
    ASSUME Shapes, NEW c \in Callers
    PROVE  /\ \A p \in Prefixes : Reuse(c, p) \/ Decline(c, p) => InFlight' = InFlight
           /\ Register(c) => InFlight' = InFlight
           /\ \A p \in Prefixes : Request(c, p) => InFlight' \subseteq Callers
           /\ Store(c) \/ CreateFails(c) =>
                  /\ c \in InFlight
                  /\ InFlight' = InFlight \ {c}
                  /\ Cardinality(InFlight') = Cardinality(InFlight) - 1
<1>f. calls \in [Callers -> Calls]
  BY DEF Shapes
<1>1. ASSUME NEW p \in Prefixes, NEW copy, Ready(c), Finish(c, p, copy)
      PROVE  InFlight' = InFlight
  BY <1>f, <1>1 DEF Finish, Done, InFlight, Ready
<1>2. ASSUME NEW p \in Prefixes, Reuse(c, p) \/ Decline(c, p)
      PROVE  InFlight' = InFlight
  <2>1. CASE Reuse(c, p)
    <3>1. Ready(c) /\ Finish(c, p, Kempt(handles)[HandleKey(p)].copy)
      BY <2>1 DEF Reuse
    <3> QED
      BY <3>1, <1>1
  <2>2. CASE Decline(c, p)
    <3>1. Ready(c) /\ Finish(c, p, NoCopy)
      BY <2>2 DEF Decline, Miss
    <3> QED
      BY <3>1, <1>1
  <2> QED
    BY <1>2, <2>1, <2>2
<1>3. ASSUME Register(c) PROVE InFlight' = InFlight
  <2>1. /\ calls' = [calls EXCEPT ![c].copy = Cardinality(copies) + 1]
        /\ calls[c] \in [state : {"creating"}, prefix : Prefixes, copy : Nat, since : Nat]
    BY <1>f, <1>3 DEF Register, Ready, Calls, Idle
  <2>2. /\ DOMAIN calls' = Callers
        /\ \A d \in Callers : calls'[d].state = calls[d].state
    BY <2>1, <1>f
  <2> QED
    BY <2>2 DEF InFlight, Ready
<1>4. InFlight' \subseteq Callers
  BY DEF InFlight
<1>5. ASSUME Store(c) \/ CreateFails(c)
      PROVE  /\ c \in InFlight
             /\ InFlight' = InFlight \ {c}
             /\ Cardinality(InFlight') = Cardinality(InFlight) - 1
  <2>1. c \in InFlight
    BY <1>5 DEF Store, CreateFails, InFlight
  <2>2. PICK copy : Finish(c, calls[c].prefix, copy)
    BY <1>5 DEF Store, CreateFails
  <2>3. InFlight' = InFlight \ {c}
    BY <1>f, <2>2 DEF Finish, Done, InFlight, Ready
  <2>4. Cardinality(InFlight \ {c}) = Cardinality(InFlight) - 1
    BY <2>1, InFlightCount, FS_RemoveElement
  <2> QED
    BY <2>1, <2>3, <2>4
<1> QED
  BY <1>2, <1>3, <1>4, <1>5

\* The live handles after a step that leaves the clock alone.
LEMMA LiveSameClock ==
    ASSUME now' = now PROVE LiveKeys(handles)' = LiveKeys(handles')
BY DEF LiveKeys, Expired

LEMMA AddCount ==
    ASSUME NEW S, IsFiniteSet(S), NEW x
    PROVE  /\ IsFiniteSet(S \union {x})
           /\ Cardinality(S \union {x}) \in Nat
           /\ Cardinality(S \union {x}) <= Cardinality(S) + 1
<1>1. /\ IsFiniteSet(S \union {x})
      /\ Cardinality(S \union {x}) =
            IF x \in S THEN Cardinality(S) ELSE Cardinality(S) + 1
  BY FS_AddElement
<1>2. Cardinality(S) \in Nat
  BY FS_CardinalityType
<1> QED
  BY <1>1, <1>2

\* Of the handles and of the live ones, a store adds one at most.
LEMMA StoreAdds ==
    ASSUME Shapes, NEW c \in Callers, Store(c)
    PROVE  /\ Cardinality(DOMAIN handles') <= Cardinality(DOMAIN handles) + 1
           /\ Cardinality(LiveKeys(handles')) <= Cardinality(LiveKeys(handles)) + 1
<1> DEFINE k == HandleKey(calls[c].prefix)
<1>1. /\ DOMAIN handles' = DOMAIN handles \union {k}
      /\ \A y \in DOMAIN handles' \ {k} : handles'[y] = handles[y]
  BY DEF Store
<1>2. LiveKeys(handles') \subseteq LiveKeys(handles) \union {k}
  BY <1>1 DEF LiveKeys, Expired
<1>3. /\ IsFiniteSet(DOMAIN handles) /\ IsFiniteSet(LiveKeys(handles))
      /\ Cardinality(DOMAIN handles) \in Nat /\ Cardinality(LiveKeys(handles)) \in Nat
  BY LiveCount DEF Shapes, Handles
<1>4. Cardinality(DOMAIN handles') <= Cardinality(DOMAIN handles) + 1
  BY <1>1, <1>3, AddCount
<1>5. /\ IsFiniteSet(LiveKeys(handles) \union {k})
      /\ Cardinality(LiveKeys(handles) \union {k}) <= Cardinality(LiveKeys(handles)) + 1
      /\ Cardinality(LiveKeys(handles) \union {k}) \in Nat
  BY <1>3, AddCount
<1>6. /\ Cardinality(LiveKeys(handles')) <= Cardinality(LiveKeys(handles) \union {k})
      /\ Cardinality(LiveKeys(handles')) \in Nat
  BY <1>2, <1>5, FS_Subset, FS_CardinalityType
<1> QED
  BY <1>3, <1>4, <1>5, <1>6

\* What the number of live handles may do in a step that is no request.
LEMMA FewerLive ==
    ASSUME Shapes, Handles(handles'), NEW S, S = LiveKeys(handles)',
           Thinned(handles, handles'), now' = now \/ now' = now + 1
    PROVE  /\ Cardinality(S) \in Nat
           /\ Cardinality(S) <= Cardinality(LiveKeys(handles))
<1>1. \A k \in DOMAIN handles : handles[k].expires \in Nat
  BY DEF Shapes, Handles
<1>2. S \subseteq LiveKeys(handles)
  BY <1>1 DEF LiveKeys, Expired, Thinned, Shapes
<1> QED
  BY <1>2, LiveCount, FS_Subset, FS_CardinalityType DEF Shapes

\* Overlapping callers exceed the spend cap by less than their number.
THEOREM CapSlackHolds == Spec => []CapSlack
<1>1. Init => CapSlack
  <2> SUFFICES ASSUME Init PROVE CapSlack
    OBVIOUS
  <2>1. InFlight = {} /\ LiveKeys(handles) = {}
    BY DEF Init, InFlight, Ready, Idle, LiveKeys, NoHandles
  <2> QED
    BY <2>1, InFlightCount, FS_EmptySet, RegistrarAssumption DEF CapSlack
<1>2. Shapes /\ Shapes' /\ CapSlack /\ [Next]_vars => CapSlack'
  <2> SUFFICES ASSUME Shapes, Shapes', CapSlack, [Next]_vars PROVE CapSlack'
    OBVIOUS
  <2> DEFINE slack == MaxEntries + Cardinality(Callers) - 1
  <2>1. /\ Cardinality(LiveKeys(handles)) \in Nat /\ Cardinality(InFlight) \in Nat
        /\ Cardinality(Callers) \in Nat /\ Cardinality(Callers) >= 1
        /\ MaxEntries \in Nat /\ Handles(handles) /\ Handles(handles')
    BY LiveCount, InFlightCount, RegistrarAssumption DEF Shapes
  <2>2. /\ Cardinality(InFlight') \in Nat
        /\ Cardinality(LiveKeys(handles)') \in Nat
    <3>1. InFlight' \subseteq Callers
      BY DEF InFlight
    <3>2. LiveKeys(handles)' \subseteq DOMAIN handles' /\ IsFiniteSet(DOMAIN handles')
      BY <2>1 DEF LiveKeys, Handles
    <3> QED
      BY <3>1, <3>2, RegistrarAssumption, FS_Subset, FS_CardinalityType
  \* A step that adds to neither.
  <2>n. ASSUME /\ Cardinality(LiveKeys(handles)') <= Cardinality(LiveKeys(handles))
               /\ Cardinality(InFlight') <= Cardinality(InFlight)
        PROVE  CapSlack'
    BY <2>1, <2>2, <2>n DEF CapSlack
  <2>3. ASSUME NEW c \in Callers, NEW p \in Prefixes, Reuse(c, p) \/ Decline(c, p)
        PROVE  CapSlack'
    <3>1. LiveKeys(handles') = LiveKeys(handles) /\ now' = now
      BY <2>3, ReuseThins, MissThins DEF Reuse, Decline
    <3>2. InFlight' = InFlight
      BY <2>3, InFlightStep
    <3> QED
      BY <3>1, <3>2, <2>n, <2>1, LiveSameClock
  <2>4. ASSUME NEW c \in Callers, NEW p \in Prefixes, Request(c, p)
        PROVE  CapSlack'
    <3>1. Cardinality(LiveKeys(handles)') < MaxEntries
      BY <2>4, LiveSameClock DEF Request, BelowCap
    <3>2. InFlight' \subseteq Callers
      BY <2>4, InFlightStep
    <3>3. Cardinality(InFlight') <= Cardinality(Callers)
      BY <3>2, RegistrarAssumption, FS_Subset
    <3> QED
      BY <3>1, <3>3, <2>1, <2>2 DEF CapSlack
  <2>5. ASSUME NEW c \in Callers, Register(c)
        PROVE  CapSlack'
    <3>1. LiveKeys(handles)' = LiveKeys(handles)
      BY <2>5 DEF Register, LiveKeys, Expired
    <3>2. InFlight' = InFlight
      BY <2>5, InFlightStep
    <3> QED
      BY <3>1, <3>2, <2>n, <2>1
  <2>6. ASSUME NEW c \in Callers, Store(c)
        PROVE  CapSlack'
    <3>1. Cardinality(LiveKeys(handles)') <= Cardinality(LiveKeys(handles)) + 1
      BY <2>6, StoreAdds, LiveSameClock DEF Store
    <3>2. Cardinality(InFlight') = Cardinality(InFlight) - 1
      BY <2>6, InFlightStep
    <3> QED
      BY <3>1, <3>2, <2>1, <2>2 DEF CapSlack
  <2>7. ASSUME NEW c \in Callers, CreateFails(c)
        PROVE  CapSlack'
    <3>1. LiveKeys(handles)' = LiveKeys(handles)
      BY <2>7 DEF CreateFails, LiveKeys, Expired
    <3>2. Cardinality(InFlight') = Cardinality(InFlight) - 1
      BY <2>7, InFlightStep
    <3> QED
      BY <3>1, <3>2, <2>n, <2>1
  <2>8. CASE EvictExpired \/ Tick \/ UNCHANGED vars
    <3>1. Thinned(handles, handles') /\ (now' = now \/ now' = now + 1)
      BY <2>8, PrunedThins DEF EvictExpired, Tick, vars, Thinned
    <3>2. Cardinality(LiveKeys(handles)') <= Cardinality(LiveKeys(handles))
      BY <3>1, <2>1, FewerLive
    <3>3. InFlight' = InFlight
      BY <2>8 DEF EvictExpired, Tick, vars, InFlight, Ready
    <3> QED
      BY <3>2, <3>3, <2>n, <2>1
  <2>9. CASE Restart
    <3>1. InFlight' = {} /\ LiveKeys(handles)' = {}
      BY <2>9 DEF Restart, InFlight, Ready, Idle, LiveKeys, NoHandles
    <3> QED
      BY <3>1, <2>1, FS_EmptySet DEF CapSlack
  <2> QED
    BY <2>3, <2>4, <2>5, <2>6, <2>7, <2>8, <2>9 DEF Next
<1> QED
  BY <1>1, <1>2, ShapesAlways, PTL DEF Spec

\* Expired handles do not pile up: every request looks after the map first.
THEOREM MapAlwaysBounded == Spec => []MapBounded
<1> DEFINE bound == MaxEntries * PruneFactor
<1>b. bound \in Nat /\ MaxEntries <= bound /\ MaxEntries \in Nat
  <2>1. MaxEntries \in Nat /\ PruneFactor \in Nat /\ PruneFactor >= 1
    BY RegistrarAssumption
  <2>2. \A m \in Nat, f \in Nat : f >= 1 => m * f \in Nat /\ m <= m * f
    OBVIOUS
  <2> QED
    BY <2>1, <2>2
<1> HIDE DEF bound
<1>d. MapBounded <=>
        Cardinality(DOMAIN handles) + Cardinality(InFlight) <= bound + Cardinality(Callers)
  BY DEF MapBounded, bound
<1>p. MapBounded' <=>
        Cardinality(DOMAIN handles') + Cardinality(InFlight') <= bound + Cardinality(Callers)
  BY DEF MapBounded, bound
<1>1. Init => MapBounded
  <2> SUFFICES ASSUME Init PROVE MapBounded
    OBVIOUS
  <2>1. InFlight = {} /\ DOMAIN handles = {}
    BY DEF Init, InFlight, Ready, Idle, NoHandles
  <2> QED
    BY <2>1, <1>b, <1>d, InFlightCount, FS_EmptySet
<1>2. Shapes /\ Shapes' /\ MapBounded /\ [Next]_vars => MapBounded'
  <2> SUFFICES ASSUME Shapes, Shapes', MapBounded, [Next]_vars PROVE MapBounded'
    OBVIOUS
  <2>1. /\ Cardinality(DOMAIN handles) \in Nat /\ Cardinality(InFlight) \in Nat
        /\ Cardinality(Callers) \in Nat /\ Cardinality(Callers) >= 1
        /\ Handles(handles) /\ Handles(handles')
    BY LiveCount, InFlightCount DEF Shapes
  <2>2. /\ Cardinality(InFlight') \in Nat /\ Cardinality(DOMAIN handles') \in Nat
    <3>1. InFlight' \subseteq Callers
      BY DEF InFlight
    <3> QED
      BY <2>1, <3>1, RegistrarAssumption, FS_Subset, FS_CardinalityType DEF Handles
  <2>n. ASSUME /\ Cardinality(DOMAIN handles') <= Cardinality(DOMAIN handles)
               /\ Cardinality(InFlight') <= Cardinality(InFlight)
        PROVE  MapBounded'
    BY <2>1, <2>2, <2>n, <1>b, <1>d, <1>p
  <2>3. ASSUME NEW c \in Callers, NEW p \in Prefixes, Reuse(c, p) \/ Decline(c, p)
        PROVE  MapBounded'
    <3>1. Cardinality(DOMAIN handles') <= Cardinality(DOMAIN handles)
      BY <2>3, <2>1, ReuseThins, MissThins, ThinnedHandles DEF Decline
    <3>2. InFlight' = InFlight
      BY <2>3, InFlightStep
    <3> QED
      BY <3>1, <3>2, <2>n, <2>1
  <2>4. ASSUME NEW c \in Callers, NEW p \in Prefixes, Request(c, p)
        PROVE  MapBounded'
    <3> DEFINE hs == Kempt(handles)
    <3>1. Miss(c, p) /\ Cardinality(LiveKeys(handles')) < MaxEntries
      BY <2>4 DEF Request, BelowCap
    <3>2. Handles(hs) /\ Thinned(hs, handles') /\ LiveKeys(handles') = LiveKeys(hs)
      BY <3>1, <2>1, MissThins, KemptThins, ThinnedHandles
    <3>3. Cardinality(DOMAIN handles') <= Cardinality(DOMAIN hs)
      BY <3>2, ThinnedHandles
    <3>4. Cardinality(DOMAIN hs) \in Nat
      BY <3>2, LiveCount
    <3>5. Cardinality(DOMAIN hs) <= bound
      <4>1. CASE DOMAIN hs = LiveKeys(handles)
        BY <4>1, <3>1, <3>2, <3>4, <1>b, KemptThins
      <4>2. CASE hs = handles /\ DOMAIN hs # LiveKeys(handles)
        <5>1. ~(Cardinality(DOMAIN handles) > MaxEntries * PruneFactor)
          BY <4>2, PrunedThins DEF Kempt
        <5> QED
          BY <5>1, <4>2, <1>b, <2>1 DEF bound
      <4> QED
        BY <4>1, <4>2, KemptThins
    <3>6. InFlight' \subseteq Callers
      BY <2>4, InFlightStep
    <3>7. Cardinality(InFlight') <= Cardinality(Callers)
      BY <3>6, RegistrarAssumption, FS_Subset
    <3> QED
      BY <3>3, <3>4, <3>5, <3>7, <2>1, <2>2, <1>b, <1>p
  <2>5. ASSUME NEW c \in Callers, Register(c)
        PROVE  MapBounded'
    <3>1. handles' = handles /\ InFlight' = InFlight
      BY <2>5, InFlightStep DEF Register
    <3> QED
      BY <3>1, <2>n, <2>1
  <2>6. ASSUME NEW c \in Callers, Store(c)
        PROVE  MapBounded'
    <3>1. Cardinality(DOMAIN handles') <= Cardinality(DOMAIN handles) + 1
      BY <2>6, StoreAdds
    <3>2. Cardinality(InFlight') = Cardinality(InFlight) - 1
      BY <2>6, InFlightStep
    <3> QED
      BY <3>1, <3>2, <2>1, <2>2, <1>b, <1>d, <1>p
  <2>7. ASSUME NEW c \in Callers, CreateFails(c)
        PROVE  MapBounded'
    <3>1. handles' = handles /\ Cardinality(InFlight') = Cardinality(InFlight) - 1
      BY <2>7, InFlightStep DEF CreateFails
    <3> QED
      BY <3>1, <2>n, <2>1
  <2>8. CASE EvictExpired \/ Tick \/ UNCHANGED vars
    <3>1. Thinned(handles, handles')
      BY <2>8, PrunedThins DEF EvictExpired, Tick, vars, Thinned
    <3>2. Cardinality(DOMAIN handles') <= Cardinality(DOMAIN handles)
      BY <3>1, <2>1, ThinnedHandles
    <3>3. InFlight' = InFlight
      BY <2>8 DEF EvictExpired, Tick, vars, InFlight, Ready
    <3> QED
      BY <3>2, <3>3, <2>n, <2>1
  <2>9. CASE Restart
    <3>1. InFlight' = {} /\ DOMAIN handles' = {}
      BY <2>9 DEF Restart, InFlight, Ready, Idle, NoHandles
    <3> QED
      BY <3>1, <2>1, <1>b, <1>p, FS_EmptySet
  <2> QED
    BY <2>3, <2>4, <2>5, <2>6, <2>7, <2>8, <2>9 DEF Next
<1> QED
  BY <1>1, <1>2, ShapesAlways, PTL DEF Spec

-----------------------------------------------------------------------------
(* The copies behind the handles.                                          *)

\* The provider has a copy of that name, made for key k, until t at least.
CopyFor(k, id, t) == \E x \in copies : x.id = id /\ HandleKey(x.prefix) = k /\ t <= x.until

\* What makes LiveHandlesBacked inductive: a call on its way has a copy that
\* will outlive the handle it is about to store.
HandlesBacked == \A k \in DOMAIN handles : CopyFor(k, handles[k].copy, handles[k].expires)

CallBacked(c) ==
    /\ calls[c].state = "creating" => calls[c].since <= now
    /\ calls[c].state = "creating" /\ calls[c].copy # NoCopy =>
          CopyFor(HandleKey(calls[c].prefix), calls[c].copy, calls[c].since + ProviderTTL)
    /\ calls[c].state = "done" /\ calls[c].copy # NoCopy =>
          CopyFor(HandleKey(calls[c].prefix), calls[c].copy, 0)

CallsBacked == \A c \in Callers : CallBacked(c)

Backed == HandlesBacked /\ CallsBacked

LEMMA SomeCopy ==
    ASSUME Shapes, NEW k, NEW id, NEW t, CopyFor(k, id, t)
    PROVE  CopyFor(k, id, 0)
BY DEF CopyFor, Shapes

\* Handles stay backed where none is made, and a call that is left alone does.
LEMMA HandlesStay ==
    ASSUME HandlesBacked, copies \subseteq copies', Thinned(handles, handles')
    PROVE  HandlesBacked'
<1>1. ASSUME NEW k \in DOMAIN handles'
      PROVE  \E x \in copies' : /\ x.id = handles'[k].copy /\ HandleKey(x.prefix) = k
                               /\ handles'[k].expires <= x.until
  <2>1. k \in DOMAIN handles /\ handles'[k] = handles[k]
    BY DEF Thinned
  <2> QED
    BY <2>1 DEF HandlesBacked, CopyFor
<1> QED
  BY <1>1 DEF HandlesBacked, CopyFor

LEMMA CallStays ==
    ASSUME Shapes, copies \subseteq copies', now' \in Nat, now <= now',
           NEW c \in Callers, CallBacked(c), calls'[c] = calls[c]
    PROVE  CallBacked(c)'
<1> DEFINE call == calls[c]
<1>1. call.state = "creating" => call.since <= now'
  <2>1. call.state = "creating" => call.since \in Nat /\ call.since <= now
    BY DEF CallBacked, Shapes, Calls, Idle
  <2> QED
    BY <2>1 DEF Shapes
<1>2. call.state = "creating" /\ call.copy # NoCopy =>
          \E x \in copies' : /\ x.id = call.copy /\ HandleKey(x.prefix) = HandleKey(call.prefix)
                            /\ call.since + ProviderTTL <= x.until
  BY DEF CallBacked, CopyFor
<1>3. call.state = "done" /\ call.copy # NoCopy =>
          \E x \in copies' : /\ x.id = call.copy /\ HandleKey(x.prefix) = HandleKey(call.prefix)
                            /\ 0 <= x.until
  BY DEF CallBacked, CopyFor
<1> QED
  BY <1>1, <1>2, <1>3 DEF CallBacked, CopyFor

\* A call that ends with nothing, or has just started, needs no copy.
LEMMA NoCopyBacked ==
    ASSUME Shapes, NEW c \in Callers,
           \/ \E p \in Prefixes : calls'[c] = Done(p, NoCopy)
           \/ \E p \in Prefixes : calls'[c] = Creating(p, NoCopy, now) /\ now' = now
           \/ calls'[c] = Idle
    PROVE  CallBacked(c)'
<1>1. CASE \E p \in Prefixes : calls'[c] = Done(p, NoCopy)
  <2>1. calls'[c].state = "done" /\ calls'[c].copy = NoCopy
    BY <1>1 DEF Done
  <2> QED
    BY <2>1 DEF CallBacked
<1>2. CASE \E p \in Prefixes : calls'[c] = Creating(p, NoCopy, now) /\ now' = now
  <2>1. /\ calls'[c].state = "creating" /\ calls'[c].copy = NoCopy
        /\ calls'[c].since = now /\ now' = now /\ now \in Nat
    BY <1>2 DEF Creating, Shapes
  <2> QED
    BY <2>1 DEF CallBacked
<1>3. CASE calls'[c] = Idle
  <2>1. calls'[c].state = "idle"
    BY <1>3 DEF Idle
  <2> QED
    BY <2>1 DEF CallBacked
<1> QED
  BY <1>1, <1>2, <1>3

LEMMA BackedInductive == Shapes /\ Shapes' /\ Backed /\ [Next]_vars => Backed'
<1> SUFFICES ASSUME Shapes, Shapes', Backed, [Next]_vars PROVE Backed'
  OBVIOUS
<1>0. /\ HandlesBacked /\ \A c \in Callers : CallBacked(c)
      /\ now \in Nat /\ now' \in Nat /\ calls \in [Callers -> Calls]
  BY DEF Backed, CallsBacked, Shapes
\* A step that thins the handles and touches one call at most.
<1>s. ASSUME copies' = copies, Thinned(handles, handles'), now' = now,
             NEW c \in Callers, NEW r, calls' = [calls EXCEPT ![c] = r], CallBacked(c)'
      PROVE  Backed'
  <2>1. \A d \in Callers \ {c} : calls'[d] = calls[d]
    BY <1>s, <1>0
  <2>2. HandlesBacked'
    BY <1>s, <1>0, HandlesStay
  <2>3. ASSUME NEW d \in Callers PROVE CallBacked(d)'
    <3>1. CASE d = c
      BY <3>1, <1>s
    <3>2. CASE d # c
      BY <3>2, <2>1, <1>s, <1>0, CallStays
    <3> QED
      BY <3>1, <3>2
  <2> QED
    BY <2>2, <2>3 DEF Backed, CallsBacked
<1>1. ASSUME NEW c \in Callers, NEW p \in Prefixes, Reuse(c, p)
      PROVE  Backed'
  <2> DEFINE k == HandleKey(p)
  <2>1. /\ Thinned(handles, handles') /\ handles' = Kempt(handles)
        /\ k \in DOMAIN Kempt(handles)
        /\ calls' = [calls EXCEPT ![c] = Done(p, Kempt(handles)[k].copy)]
        /\ now' = now /\ copies' = copies
    BY <1>1, ReuseThins DEF Reuse, LiveKeys, Finish
  <2>2. k \in DOMAIN handles /\ Kempt(handles)[k] = handles[k]
    BY <2>1 DEF Thinned
  <2>3. CopyFor(k, handles[k].copy, 0)
    BY <2>2, <1>0, SomeCopy DEF HandlesBacked
  <2>4. calls'[c] = Done(p, handles[k].copy)
    BY <2>1, <2>2, <1>0
  <2>5. \E x \in copies' : x.id = handles[k].copy /\ HandleKey(x.prefix) = k /\ 0 <= x.until
    BY <2>1, <2>3 DEF CopyFor
  <2>6. CallBacked(c)'
    BY <2>4, <2>5 DEF CallBacked, CopyFor, Done
  <2> QED
    BY <2>1, <2>6, <1>s
<1>2. ASSUME NEW c \in Callers, NEW p \in Prefixes, Decline(c, p)
      PROVE  Backed'
  <2>1. /\ Thinned(handles, handles') /\ now' = now /\ copies' = copies
        /\ calls' = [calls EXCEPT ![c] = Done(p, NoCopy)]
    BY <1>2, MissThins DEF Decline, Finish
  <2>2. CallBacked(c)'
    <3>1. calls'[c] = Done(p, NoCopy)
      BY <2>1, <1>0
    <3> QED
      BY <3>1, NoCopyBacked
  <2> QED
    BY <2>1, <2>2, <1>s
<1>3. ASSUME NEW c \in Callers, NEW p \in Prefixes, Request(c, p)
      PROVE  Backed'
  <2>1. /\ Thinned(handles, handles') /\ now' = now /\ copies' = copies
        /\ calls' = [calls EXCEPT ![c] = Creating(p, NoCopy, now)]
    BY <1>3, MissThins DEF Request
  <2>2. CallBacked(c)'
    <3>1. calls'[c] = Creating(p, NoCopy, now)
      BY <2>1, <1>0
    <3> QED
      BY <3>1, <2>1, NoCopyBacked
  <2> QED
    BY <2>1, <2>2, <1>s
<1>4. ASSUME NEW c \in Callers, Register(c)
      PROVE  Backed'
  <2> DEFINE id == Cardinality(copies) + 1
             x  == [id |-> id, prefix |-> calls[c].prefix, until |-> now + ProviderTTL]
  <2>1. /\ calls[c].state = "creating" /\ calls[c].since \in Nat
        /\ calls[c].since <= now
    BY <1>4, <1>0 DEF Register, Ready, Calls, Idle, CallBacked
  <2>2. /\ copies' = copies \union {x} /\ handles' = handles /\ now' = now
        /\ calls' = [calls EXCEPT ![c].copy = id]
    BY <1>4 DEF Register
  <2>3. \A d \in Callers \ {c} : calls'[d] = calls[d]
    BY <2>2, <1>0
  <2>4. /\ calls'[c].state = "creating" /\ calls'[c].copy = id
        /\ calls'[c].since = calls[c].since /\ calls'[c].prefix = calls[c].prefix
    <3>1. calls[c] \in [state : {"creating"}, prefix : Prefixes, copy : Nat, since : Nat]
      BY <2>1, <1>0 DEF Calls, Idle
    <3> QED
      BY <2>2, <3>1, <1>0
  <2>5. calls[c].since + ProviderTTL <= now + ProviderTTL
    BY <2>1, <1>0, RegistrarAssumption
  <2>6. CallBacked(c)'
    <3>1. /\ x \in copies' /\ x.id = calls'[c].copy
          /\ HandleKey(x.prefix) = HandleKey(calls'[c].prefix)
          /\ calls'[c].since + ProviderTTL <= x.until
      BY <2>2, <2>4, <2>5
    <3> QED
      BY <2>1, <2>2, <2>4, <3>1 DEF CallBacked, CopyFor
  <2>7. ASSUME NEW d \in Callers PROVE CallBacked(d)'
    <3>1. CASE d = c
      BY <3>1, <2>6
    <3>2. CASE d # c
      BY <3>2, <2>2, <2>3, <1>0, CallStays
    <3> QED
      BY <3>1, <3>2
  <2>8. HandlesBacked'
    BY <2>2, <1>0, HandlesStay DEF Thinned
  <2> QED
    BY <2>7, <2>8 DEF Backed, CallsBacked
<1>5. ASSUME NEW c \in Callers, Store(c)
      PROVE  Backed'
  <2> DEFINE call == calls[c]
             k    == HandleKey(call.prefix)
  <2>1. /\ call.state = "creating" /\ call.since \in Nat /\ call.copy # NoCopy
        /\ CopyFor(k, call.copy, call.since + ProviderTTL)
    BY <1>5, <1>0 DEF Store, Ready, Calls, Idle, CallBacked
  <2>2. /\ DOMAIN handles' = DOMAIN handles \union {k}
        /\ \A y \in DOMAIN handles' :
              handles'[y] = IF y = k THEN Handle(call) ELSE handles[y]
        /\ calls' = [calls EXCEPT ![c] = Done(call.prefix, call.copy)]
        /\ now' = now /\ copies' = copies
    BY <1>5 DEF Store, Finish
  <2>3. PICK x \in copies : /\ x.id = call.copy /\ HandleKey(x.prefix) = k
                            /\ call.since + ProviderTTL <= x.until
    BY <2>1 DEF CopyFor
  <2>4. Handle(call).copy = call.copy /\ Handle(call).expires <= x.until /\ 0 <= x.until
    <3>1. Handle(call).expires = call.since + TTL /\ x.until \in Nat
      BY DEF Handle, Shapes
    <3> QED
      BY <3>1, <2>1, <2>3, RegistrarAssumption DEF Handle
  <2>5. HandlesBacked'
    <3>1. ASSUME NEW y \in DOMAIN handles'
          PROVE  \E z \in copies' : /\ z.id = handles'[y].copy /\ HandleKey(z.prefix) = y
                                   /\ handles'[y].expires <= z.until
      <4>1. CASE y = k
        BY <4>1, <2>2, <2>3, <2>4
      <4>2. CASE y # k
        BY <4>2, <2>2, <1>0 DEF HandlesBacked, CopyFor
      <4> QED
        BY <4>1, <4>2
    <3> QED
      BY <3>1 DEF HandlesBacked, CopyFor
  <2>6. ASSUME NEW d \in Callers PROVE CallBacked(d)'
    <3>1. CASE d = c
      <4>1. calls'[c] = Done(call.prefix, call.copy)
        BY <2>2, <1>0
      <4>2. \E z \in copies' : z.id = call.copy /\ HandleKey(z.prefix) = k /\ 0 <= z.until
        BY <2>2, <2>3, <2>4
      <4>3. CallBacked(c)'
        BY <4>1, <4>2 DEF CallBacked, CopyFor, Done
      <4> QED
        BY <4>3, <3>1
    <3>2. CASE d # c
      <4>1. calls'[d] = calls[d]
        BY <3>2, <2>2, <1>0
      <4> QED
        BY <4>1, <2>2, <1>0, CallStays
    <3> QED
      BY <3>1, <3>2
  <2> QED
    BY <2>5, <2>6 DEF Backed, CallsBacked
<1>6. ASSUME NEW c \in Callers, CreateFails(c)
      PROVE  Backed'
  <2>1. /\ Thinned(handles, handles') /\ now' = now /\ copies' = copies
        /\ calls' = [calls EXCEPT ![c] = Done(calls[c].prefix, NoCopy)]
    BY <1>6 DEF CreateFails, Finish, Thinned
  <2>2. calls[c].prefix \in Prefixes
    BY <1>6, <1>0 DEF CreateFails, Ready, Calls, Idle
  <2>3. CallBacked(c)'
    <3>1. calls'[c] = Done(calls[c].prefix, NoCopy)
      BY <2>1, <1>0
    <3> QED
      BY <3>1, <2>2, NoCopyBacked
  <2> QED
    BY <2>1, <2>3, <1>s
<1>7. CASE EvictExpired \/ Tick \/ UNCHANGED vars
  <2>1. /\ Thinned(handles, handles') /\ now <= now'
        /\ copies' = copies /\ calls' = calls
    BY <1>7, <1>0, PrunedThins DEF EvictExpired, Tick, vars, Thinned
  <2>2. HandlesBacked'
    BY <2>1, <1>0, HandlesStay
  <2>3. \A d \in Callers : CallBacked(d)'
    BY <2>1, <1>0, CallStays
  <2> QED
    BY <2>2, <2>3 DEF Backed, CallsBacked
<1>8. CASE Restart
  <2>1. /\ DOMAIN handles' = {} /\ \A c \in Callers : calls'[c] = Idle
    BY <1>8 DEF Restart, NoHandles
  <2> QED
    BY <2>1, NoCopyBacked DEF Backed, HandlesBacked, CallsBacked
<1> QED
  BY <1>1, <1>2, <1>3, <1>4, <1>5, <1>6, <1>7, <1>8 DEF Next

LEMMA BackedAlways == Spec => [](Shapes /\ Backed)
<1>1. Init => Backed
  BY DEF Init, Backed, HandlesBacked, CallsBacked, CallBacked, NoHandles, Idle
<1> QED
  BY <1>1, ShapesAlways, BackedInductive, PTL DEF Spec

\* A handle that is still reused refers to a copy the provider still has.
THEOREM LiveHandlesAlwaysBacked == Spec => []LiveHandlesBacked
<1>1. Shapes /\ Backed => LiveHandlesBacked
  <2> SUFFICES ASSUME Shapes, Backed, NEW k \in LiveKeys(handles)
               PROVE  \E x \in copies : /\ x.id = handles[k].copy /\ HandleKey(x.prefix) = k
                                        /\ now < x.until
    BY DEF LiveHandlesBacked
  <2>1. k \in DOMAIN handles /\ ~(now >= handles[k].expires)
    BY DEF LiveKeys, Expired
  <2>2. PICK x \in copies : /\ x.id = handles[k].copy /\ HandleKey(x.prefix) = k
                            /\ handles[k].expires <= x.until
    BY <2>1 DEF Backed, HandlesBacked, CopyFor
  <2>3. now \in Nat /\ handles[k].expires \in Nat /\ x.until \in Nat
    BY <2>1 DEF Shapes, Handles
  <2> QED
    BY <2>1, <2>2, <2>3
<1> QED
  BY <1>1, BackedAlways, PTL

\* No caller is given the copy of another credential, or of another prefix.
THEOREM CopiesAlwaysOwn == Spec => []OwnCopy
<1>1. Shapes /\ Backed => OwnCopy
  <2> SUFFICES ASSUME Shapes, Backed, NEW c \in Callers,
                      calls[c].state = "done", calls[c].copy # NoCopy
               PROVE  \E x \in copies : /\ x.id = calls[c].copy
                                        /\ x.prefix.cred = calls[c].prefix.cred
                                        /\ x.prefix.text = calls[c].prefix.text
    BY DEF OwnCopy
  <2>1. PICK x \in copies : x.id = calls[c].copy
                            /\ HandleKey(x.prefix) = HandleKey(calls[c].prefix)
    BY DEF Backed, CallsBacked, CallBacked, CopyFor
  <2>2. /\ x.prefix.cred = HandleKey(x.prefix).cred /\ x.prefix.text = HandleKey(x.prefix).text
        /\ calls[c].prefix.cred = HandleKey(calls[c].prefix).cred
        /\ calls[c].prefix.text = HandleKey(calls[c].prefix).text
    BY DEF HandleKey
  <2> QED
    BY <2>1, <2>2
<1> QED
  BY <1>1, BackedAlways, PTL
=============================================================================
