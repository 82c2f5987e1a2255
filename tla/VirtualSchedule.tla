-------------------------- MODULE VirtualSchedule --------------------------
(***************************************************************************)
(* What a rate limiter promises, without buckets: every tenant has a       *)
(* theoretical arrival time, a request that conforms advances it by the    *)
(* price of a request, and a request conforms when this leaves it at most  *)
(* one burst ahead of the clock.  A tenant's decisions depend on its own   *)
(* requests alone.                                                         *)
(***************************************************************************)
EXTENDS Integers

CONSTANTS
    Tenants, MaxTime,
    Capacity, Refill, Token   \* as in module TokenBucket

VARIABLES
    now,        \* the clock
    tat,        \* per tenant: theoretical arrival time, in units of refill
    decision    \* the last decision and whose it was

svars == <<now, tat, decision>>

NoDecision == [key |-> "none", allowed |-> FALSE]

Init ==
    /\ now = 0
    /\ tat = [k \in Tenants |-> 0]
    /\ decision = NoDecision

Due(k) == IF tat[k] >= now * Refill THEN tat[k] ELSE now * Refill

Conforms(k) == Due(k) + Token <= now * Refill + Capacity

Tick ==
    /\ now < MaxTime
    /\ now' = now + 1
    /\ UNCHANGED <<tat, decision>>

Request(k) ==
    /\ tat' = [tat EXCEPT ![k] = IF Conforms(k) THEN Due(k) + Token ELSE Due(k)]
    /\ decision' = [key |-> k, allowed |-> Conforms(k)]
    /\ UNCHANGED now

\* Whoever keeps the schedule may forget it, for everyone at once.
Forget ==
    /\ tat' = [k \in Tenants |-> 0]
    /\ decision' = NoDecision
    /\ UNCHANGED now

Next == Tick \/ Forget \/ \E k \in Tenants : Request(k)

Spec == Init /\ [][Next]_svars
=============================================================================
