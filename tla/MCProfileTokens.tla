--------------------------- MODULE MCProfileTokens ----------------------------
(* Small instances of ProfileTokens for TLC.                                 *)
EXTENDS ProfileTokens, TLC

Interchangeable == Permutations(Tokens) \cup Permutations(Downloads)
===============================================================================
