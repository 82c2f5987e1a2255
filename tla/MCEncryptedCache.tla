-------------------------- MODULE MCEncryptedCache --------------------------
(***************************************************************************)
(* Small instances of the encrypting cache.                                *)
(***************************************************************************)
EXTENDS EncryptedCache, TLC

Symmetry == Permutations(Workers) \union Permutations(Masters)
=============================================================================
