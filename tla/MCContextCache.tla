--------------------------- MODULE MCContextCache ---------------------------
(* Small instances of the registrar: two credentials that share a prefix,     *)
(* and a second prefix of the first one.                                       *)
EXTENDS ContextCache, TLC

MCPrefixes ==
    {[cred |-> "a", model |-> "m", text |-> "x"],
     [cred |-> "b", model |-> "m", text |-> "x"],
     [cred |-> "a", model |-> NoModel, text |-> "y"]}

CallerSymmetry == Permutations(Callers)
=============================================================================
