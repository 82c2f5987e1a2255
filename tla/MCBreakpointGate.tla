-------------------------- MODULE MCBreakpointGate --------------------------
(* Two tenants with the same prefix, more prefixes than the cap, and a turn *)
(* that just fails to qualify in each way.                                  *)
EXTENDS BreakpointGate

Turn == [tenant |-> "acme", dialect |-> "anthropic", parses |-> TRUE,
         messages |-> 2, prefix |-> "p", size |-> 4, marked |-> FALSE]

MCRequests ==
    {Turn, [Turn EXCEPT !.tenant = "umbra"], [Turn EXCEPT !.prefix = "q"],
     [Turn EXCEPT !.prefix = "r", !.messages = 3],
     [Turn EXCEPT !.messages = 1], [Turn EXCEPT !.size = 3],
     [Turn EXCEPT !.marked = TRUE], [Turn EXCEPT !.dialect = "openai"],
     [Turn EXCEPT !.parses = FALSE]}
=============================================================================
