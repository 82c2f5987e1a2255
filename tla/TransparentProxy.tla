-------------------------- MODULE TransparentProxy --------------------------
(***************************************************************************)
(* What a caching proxy promises its clients, whatever it keeps inside: a  *)
(* call is refused, or answered by the provider, or answered with what the *)
(* provider answered before, not too long ago, to a request that may stand *)
(* in for this one.  It never invents an answer, never mixes two up, and   *)
(* a broken optimization, a lost row or a restart changes none of this.    *)
(***************************************************************************)
EXTENDS Integers

CONSTANTS
    Requests, Slots, Contexts, Statuses, TTL,
    Interchangeable,   \* pairs <<q, r>>: an answer to q may be replayed to r
    NoAnswer

VARIABLES
    wall,      \* the wall clock
    calls,     \* per slot: idle, waiting for the provider, or done
    answers    \* every answer the provider has given

pvars == <<wall, calls, answers>>

Idle == [state |-> "idle"]
Waiting(r, c) == [state |-> "waiting", req |-> r, context |-> c]
Done(r, how, a) == [state |-> "done", req |-> r, how |-> how, answer |-> a]

Free(s) == calls[s].state # "waiting"

Replayable(a, r) ==
    /\ a.status = "ok"
    /\ a.context = {}
    /\ <<a.req, r>> \in Interchangeable
    /\ wall < a.at + TTL

Init ==
    /\ wall \in Nat
    /\ calls = [s \in Slots |-> Idle]
    /\ answers = {}

Refuse(s, r) ==
    /\ Free(s)
    /\ calls' = [calls EXCEPT ![s] = Done(r, "refused", NoAnswer)]
    /\ UNCHANGED <<wall, answers>>

Replay(s, r) ==
    /\ Free(s)
    /\ \E a \in answers :
          /\ Replayable(a, r)
          /\ calls' = [calls EXCEPT ![s] = Done(r, "replayed", a)]
    /\ UNCHANGED <<wall, answers>>

Ask(s, r) ==
    /\ Free(s)
    /\ \E c \in Contexts : calls' = [calls EXCEPT ![s] = Waiting(r, c)]
    /\ UNCHANGED <<wall, answers>>

Provide(s, status) ==
    /\ ~Free(s)
    /\ LET a == [req |-> calls[s].req, context |-> calls[s].context,
                 status |-> status, at |-> wall]
       IN  /\ answers' = answers \union {a}
           /\ calls' = [calls EXCEPT ![s] = Done(calls[s].req, "answered", a)]
    /\ UNCHANGED wall

Fail(s) ==
    /\ ~Free(s)
    /\ calls' = [calls EXCEPT ![s] = Done(calls[s].req, "failed", NoAnswer)]
    /\ UNCHANGED <<wall, answers>>

Crash ==
    /\ calls' = [s \in Slots |-> Idle]
    /\ UNCHANGED <<wall, answers>>

Time ==
    /\ wall' \in Nat
    /\ UNCHANGED <<calls, answers>>

Next ==
    \/ \E s \in Slots, r \in Requests : Refuse(s, r) \/ Replay(s, r) \/ Ask(s, r)
    \/ \E s \in Slots : Fail(s) \/ \E status \in Statuses : Provide(s, status)
    \/ Crash
    \/ Time

Spec == Init /\ [][Next]_pvars
=============================================================================
